---- MODULE Spec2Model ----
(***************************************************************************)
(* Message archive access layer of imessage-crm:                           *)
(*   - MessageReader.search_messages (src/src/messaging/message_reader.py) *)
(*     with SearchHistory.add_search (src/src/messaging/search_history.py) *)
(*   - ThreadDetector (src/src/ai/thread_detector.py)                      *)
(*   - the store connections of MessageReader._execute_query and of        *)
(*     DatabaseConnector.get_connection (src/src/database/db_connector.py) *)
(*                                                                         *)
(* Strings are sequences of one-character strings, so that LIKE matching,  *)
(* lower-casing, digit filtering and word tokenisation are computed.       *)
(* An optional value is <<>> (None / NULL) or <<v>>.                       *)
(***************************************************************************)
EXTENDS Integers, Sequences, FiniteSets, TLC

VARIABLES store, history, historyFile, call, result, previous, io, pc,
          messages, threads, groups, merged, tpc,
          payload, decoded, dpc,
          connections, queries, cpc,
          loaded, added, hpc

vars == <<store, history, historyFile, call, result, previous, io, pc,
          messages, threads, groups, merged, tpc,
          payload, decoded, dpc,
          connections, queries, cpc,
          loaded, added, hpc>>

searchVars == <<store, history, historyFile, call, result, previous, io, pc>>

threadVars == <<messages, threads, groups, merged, tpc>>

decodeVars == <<payload, decoded, dpc>>

connVars == <<connections, queries, cpc>>

\* What a run of SearchHistory on its own is observed by: the list loaded at
\* construction and the entries its add_search calls were given, oldest first.
historyVars == <<loaded, added, hpc>>

\* ------------------------------------------------------------------ bounds

\* Most joined rows the message store holds.
MaxRows == 3

\* Most messages handed to detect_threads in one call.
MaxMsgs == 4

\* Most objects in an archive's object array.
MaxObjects == 3

\* Most pieces of a payload that is no property list.
MaxChunks == 3

\* Most store queries made in one run of the connection specification.
MaxCalls == 3

\* Most add_search calls made on a SearchHistory on its own.
MaxAdds == 3

\* ----------------------------------------------------------- optional values

None == <<>>

Some(v) == <<v>>

IsNone(o) == o = <<>>

Val(o) == o[1]

\* -------------------------------------------------------------- characters

UpperSeq == <<"A", "B", "C", "D", "E", "F", "G", "H", "I", "J", "K", "L", "M", "N", "O", "P", "Q", "R", "S", "T", "U", "V", "W", "X", "Y", "Z">>

LowerSeq == <<"a", "b", "c", "d", "e", "f", "g", "h", "i", "j", "k", "l", "m", "n", "o", "p", "q", "r", "s", "t", "u", "v", "w", "x", "y", "z">>

UpperCase == {UpperSeq[i] : i \in 1..26}

LowerCase == {LowerSeq[i] : i \in 1..26}

\* str.lower() / SQLite's ASCII case folding, one character.
LowerChar(c) ==
  IF c \in UpperCase THEN LowerSeq[CHOOSE i \in 1..26 : UpperSeq[i] = c]
  ELSE c

Lower(s) == [i \in 1..Len(s) |-> LowerChar(s[i])]

Digits == {"0", "1", "2", "3", "4", "5", "6", "7", "8", "9"}

\* ' '.join(texts)
RECURSIVE JoinWithSpace(_)
JoinWithSpace(texts) ==
  IF texts = <<>> THEN <<>>
  ELSE IF Len(texts) = 1 THEN texts[1]
  ELSE texts[1] \o <<" ">> \o JoinWithSpace(Tail(texts))

\* Whether t occurs in s as a contiguous substring.
Contains(s, t) ==
  \E i \in 0..(Len(s) - Len(t)) : \A j \in 1..Len(t) : s[i + j] = t[j]

\* SQLite's  s LIKE pat  (no ESCAPE clause): % matches any run, _ any one
\* character, every other character itself, ASCII letters case-insensitively.
RECURSIVE LikeMatch(_, _)
LikeMatch(pat, s) ==
  IF pat = <<>> THEN s = <<>>
  ELSE IF Head(pat) = "%"
    THEN LikeMatch(Tail(pat), s) \/ (s # <<>> /\ LikeMatch(pat, Tail(s)))
  ELSE IF Head(pat) = "_"
    THEN s # <<>> /\ LikeMatch(Tail(pat), Tail(s))
  ELSE s # <<>> /\ LowerChar(Head(pat)) = LowerChar(Head(s))
                /\ LikeMatch(Tail(pat), Tail(s))

\* ====================================================== rich-text decoder

\* A payload byte is a printable ASCII character, a control byte (Ctl,
\* 0x00-0x1f) or a byte that is not valid UTF-8 where it stands (Hi, >= 0x80).
Ctl == "\\x01"

Hi == "\\x84"

\* U+FFFD, what decode('utf-8', errors='replace') puts for an invalid byte.
Replacement == "\\ufffd"

\* str.startswith
StartsWith(s, prefix) ==
  Len(s) >= Len(prefix) /\ SubSeq(s, 1, Len(prefix)) = prefix

\* str.strip(): leading and trailing blanks removed.
RECURSIVE Strip(_)
Strip(s) ==
  IF s = <<>> THEN s
  ELSE IF Head(s) = " " THEN Strip(Tail(s))
  ELSE IF s[Len(s)] = " " THEN Strip(SubSeq(s, 1, Len(s) - 1))
  ELSE s

\* str.isalpha, str.isalnum, str.isspace of one character.
IsAlpha(c) == c \in LowerCase \cup UpperCase

IsAlnum(c) == IsAlpha(c) \/ c \in Digits

IsSpace(c) == c = " "

\* A value of a parsed property list as the decoder tells them apart: a
\* string, a dictionary (of a keyed-archive object: whether it has '$class',
\* and its 'NS.string' value if any), or something else (a number, a list).
\* An index reference is the dictionary {'CF$UID': n} in an XML archive and
\* a plistlib.UID object in a binary one.
PStr(s) == [type |-> "str", s |-> s]

PUidDict(n) == [type |-> "uid_dict", uid |-> n]

PUid(n) == [type |-> "uid", uid |-> n]

POther == [type |-> "other"]

PObject(has_class, ns_string) ==
  [type |-> "dict", has_class |-> has_class, ns_string |-> ns_string]

\* plistlib.loads(data): raised, a value that is not a dict with '$objects',
\* or a keyed archive with its object array.
PlistInvalid == [kind |-> "invalid", objects |-> <<>>]

PlistOther == [kind |-> "other", objects |-> <<>>]

Archive(objects) == [kind |-> "archive", objects |-> objects]

\* The first loop of the structured decode from object i (1-based) on: the
\* text of the first object whose NS.string resolves to a non-blank string.
RECURSIVE ScanStringObjects(_, _)
ScanStringObjects(objects, i) ==
  IF i > Len(objects) THEN None
  ELSE LET obj == objects[i]
       IN IF obj.type # "dict" \/ IsNone(obj.ns_string)
            THEN ScanStringObjects(objects, i + 1)
          ELSE LET string_ref == Val(obj.ns_string)
                   referenced ==
                     IF /\ obj.has_class
                        /\ string_ref.type = "uid_dict"
                        /\ string_ref.uid < Len(objects)
                       THEN Some(objects[string_ref.uid + 1])
                     ELSE None
               IN IF /\ ~IsNone(referenced)
                     /\ Val(referenced).type = "str"
                     /\ Len(Strip(Val(referenced).s)) > 0
                    THEN Some(Strip(Val(referenced).s))
                  ELSE IF string_ref.type = "str" /\ Len(Strip(string_ref.s)) > 0
                    THEN Some(Strip(string_ref.s))
                  ELSE ScanStringObjects(objects, i + 1)

\* The filter of the second loop: a loose string that is not a system or
\* framework string.
LooksLikeMessage(s) ==
  /\ Len(Strip(s)) > 2
  /\ ~StartsWith(s, <<"N", "S">>)
  /\ ~StartsWith(s, <<"_", "_">>)
  /\ ~StartsWith(s, <<"C", "F">>)
  /\ s \notin {<<"X", "$", "v", "e", "r", "s", "i", "o", "n", "Y", "$", "a", "r", "c", "h", "i", "v", "e", "r", "T", "$", "t", "o", "p", "X", "$", "o", "b", "j", "e", "c", "t", "s">>, <<"s", "t", "r", "e", "a", "m", "t", "y", "p", "e", "d">>}
  /\ ~Contains(s, <<"$">>)
  /\ ~Contains(s, <<"A", "t", "t", "r", "i", "b", "u", "t", "e", "N", "a", "m", "e">>)
  /\ ~Contains(s, <<"N", "S", "C", "o", "l", "o", "r">>)
  /\ ~Contains(s, <<"N", "S", "F", "o", "n", "t">>)

\* max(potential_messages, key=len): the first of the longest candidates.
RECURSIVE MaxByLen(_, _)
MaxByLen(candidates, best) ==
  IF candidates = <<>> THEN best
  ELSE MaxByLen(Tail(candidates),
                IF Len(Head(candidates)) > Len(best) THEN Head(candidates)
                ELSE best)

\* The second loop of the structured decode: the longest loose string that
\* looks like message content.
LongestLooseString(objects) ==
  LET strings == SelectSeq(objects, LAMBDA obj : obj.type = "str" /\ LooksLikeMessage(obj.s))
      potential_messages == [k \in 1..Len(strings) |-> Strip(strings[k].s)]
  IN IF potential_messages = <<>> THEN None
     ELSE Some(MaxByLen(Tail(potential_messages), Head(potential_messages)))

\* Tier 1, the structured decode of the parsed payload: Some(text) or None.
StructuredDecode(plist) ==
  IF plist.kind # "archive" THEN None
  ELSE LET found == ScanStringObjects(plist.objects, 1)
       IN IF ~IsNone(found) THEN found
          ELSE LongestLooseString(plist.objects)

\* data.decode('utf-8', errors='replace'): ASCII bytes are themselves, an
\* invalid byte becomes U+FFFD.
Utf8Decode(data) ==
  [i \in 1..Len(data) |-> IF data[i] = Hi THEN Replacement ELSE data[i]]

\* re.findall(r'[^\x00-\x1f\x7f-\x9f]{3,}', text): the maximal runs of
\* characters outside the control ranges, those of three or more characters.
RECURSIVE ReadableFrom(_, _, _, _)
ReadableFrom(text, i, cur, acc) ==
  IF i > Len(text) THEN (IF Len(cur) >= 3 THEN Append(acc, cur) ELSE acc)
  ELSE IF text[i] # Ctl THEN ReadableFrom(text, i + 1, Append(cur, text[i]), acc)
  ELSE ReadableFrom(text, i + 1, <<>>, IF Len(cur) >= 3 THEN Append(acc, cur) ELSE acc)

ReadableSequences(text) == ReadableFrom(text, 1, <<>>, <<>>)

\* The tests of the text scan on a cleaned run: not a system or framework
\* string, some letter, and more than 70% letters, digits and blanks.
IsMessageCandidate(cleaned) ==
  /\ Len(cleaned) > 2
  /\ ~StartsWith(cleaned, <<"N", "S">>)
  /\ ~StartsWith(cleaned, <<"_", "_">>)
  /\ ~StartsWith(cleaned, <<"C", "F">>)
  /\ ~StartsWith(cleaned, <<"$">>)
  /\ ~Contains(Lower(cleaned), <<"s", "t", "r", "e", "a", "m", "t", "y", "p", "e", "d">>)
  /\ ~Contains(Lower(cleaned), <<"a", "r", "c", "h", "i", "v", "e", "r">>)
  /\ ~Contains(Lower(cleaned), <<"a", "t", "t", "r", "i", "b", "u", "t", "e", "d">>)
  /\ ~Contains(cleaned, <<"X", "$", "v", "e", "r", "s", "i", "o", "n">>)
  /\ ~Contains(cleaned, <<"$", "o", "b", "j", "e", "c", "t", "s">>)
  /\ ~Contains(cleaned, <<"$", "c", "l", "a", "s", "s">>)
  /\ \E k \in 1..Len(cleaned) : IsAlpha(cleaned[k])
  /\ 10 * Cardinality({k \in 1..Len(cleaned) :
                         IsAlnum(cleaned[k]) \/ IsSpace(cleaned[k])})
       > 7 * Len(cleaned)

\* len(x) + (10 if ' ' in x else 0)
CandidateScore(x) == Len(x) + (IF \E k \in 1..Len(x) : x[k] = " " THEN 10 ELSE 0)

\* max(message_candidates, key=...): the first candidate of the highest score.
RECURSIVE MaxByScore(_, _)
MaxByScore(candidates, best) ==
  IF candidates = <<>> THEN best
  ELSE MaxByScore(Tail(candidates),
                  IF CandidateScore(Head(candidates)) > CandidateScore(best)
                  THEN Head(candidates)
                  ELSE best)

\* Tier 2, the text scan of the raw bytes: Some(text) or None.
TextScan(data) ==
  LET readable_sequences == ReadableSequences(Utf8Decode(data))
      cleaned == [k \in 1..Len(readable_sequences) |-> Strip(readable_sequences[k])]
      message_candidates == SelectSeq(cleaned, IsMessageCandidate)
  IN IF message_candidates = <<>> THEN None
     ELSE Some(MaxByScore(Tail(message_candidates), Head(message_candidates)))

\* ''.join(chr(b) if 32 <= b < 127 else ' ' for b in data)
AsciiText(data) ==
  [i \in 1..Len(data) |-> IF data[i] \in {Ctl, Hi} THEN " " ELSE data[i]]

\* str.split(): the maximal runs of non-blank characters.
RECURSIVE SplitFrom(_, _, _, _)
SplitFrom(s, i, cur, acc) ==
  IF i > Len(s) THEN (IF cur = <<>> THEN acc ELSE Append(acc, cur))
  ELSE IF s[i] # " " THEN SplitFrom(s, i + 1, Append(cur, s[i]), acc)
  ELSE SplitFrom(s, i + 1, <<>>, IF cur = <<>> THEN acc ELSE Append(acc, cur))

Split(s) == SplitFrom(s, 1, <<>>, <<>>)

\* word.startswith(('NS', '__', 'CF', '$'))
HasForbiddenPrefix(word) ==
  \/ StartsWith(word, <<"N", "S">>)
  \/ StartsWith(word, <<"_", "_">>)
  \/ StartsWith(word, <<"C", "F">>)
  \/ StartsWith(word, <<"$">>)

\* Tier 3, the ASCII scrub: the words of more than two characters without a
\* forbidden prefix, joined by blanks; None when there is none.
AsciiScrub(data) ==
  LET words == SelectSeq(Split(AsciiText(data)), LAMBDA word : Len(word) > 2)
      message_words == SelectSeq(words, LAMBDA word : ~HasForbiddenPrefix(word))
  IN IF message_words = <<>> THEN None ELSE Some(JoinWithSpace(message_words))

\* What one call of the decoder did: the text returned (None for None), the
\* tier that produced it (0 for none) and the tiers it ran, in order.
Decoded(text, tier, tried) == [text |-> text, tier |-> tier, tried |-> tried]

\* Faulty variant: the text scan is skipped.
ExtractTextFromAttributedBody_NoTextScan(body) ==
  IF body.data = <<>> THEN Decoded(None, 0, <<>>)
  ELSE LET structured == StructuredDecode(body.plist)
       IN IF ~IsNone(structured) THEN Decoded(structured, 1, <<1>>)
          ELSE LET scrubbed == AsciiScrub(body.data)
               IN IF ~IsNone(scrubbed) THEN Decoded(scrubbed, 3, <<1, 3>>)
                  ELSE Decoded(None, 0, <<1, 3>>)

\* MessageReader._extract_text_from_attributed_body: each tier returns at
\* once when it has a text and otherwise falls through to the next.
ExtractTextFromAttributedBody(body) ==
  IF body.data = <<>> THEN Decoded(None, 0, <<>>)
  ELSE LET structured == StructuredDecode(body.plist)
       IN IF ~IsNone(structured) THEN Decoded(structured, 1, <<1>>)
          ELSE LET scanned == TextScan(body.data)
               IN IF ~IsNone(scanned) THEN Decoded(scanned, 2, <<1, 2>>)
                  ELSE LET scrubbed == AsciiScrub(body.data)
                       IN IF ~IsNone(scrubbed) THEN Decoded(scrubbed, 3, <<1, 2, 3>>)
                          ELSE Decoded(None, 0, <<1, 2, 3>>)

\* ---------------------------------------------------------------- payloads

\* The objects an archive's object array is drawn from: the '$null' entry,
\* string objects whose NS.string is a string, a reference of either form,
\* blank, or holds a '$' word, a class description, loose strings and a number.
ArchiveObjects ==
  { PStr(<<"$", "n", "u", "l", "l">>),
    PObject(TRUE, Some(PStr(<<"H", "e", "l", "l", "o", " ", "t", "h", "e", "r", "e">>))),
    PObject(TRUE, Some(PUidDict(2))),
    PObject(TRUE, Some(PUid(2))),
    PObject(FALSE, Some(PUidDict(2))),
    PObject(TRUE, Some(PStr(<<"$", "5", " ", "o", "k">>))),
    PObject(TRUE, Some(PStr(<<" ", " ">>))),
    PObject(TRUE, None),
    PStr(<<"H", "i", " ", "a", "l", "l">>),
    PStr(<<"o", "k">>),
    PStr(<<"s", "e", "e", " ", "N", "S", "x">>),
    PStr(<<"N", "S", "S", "t", "r", "i", "n", "g">>),
    POther }

\* The bytes of an archive: the header, then each string of the object array
\* behind a non-printable marker byte.
RECURSIVE ArchiveStrings(_)
ArchiveStrings(objects) ==
  IF objects = <<>> THEN <<>>
  ELSE LET obj == Head(objects)
       IN (IF obj.type = "str" THEN <<Ctl>> \o obj.s
           ELSE IF obj.type = "dict" /\ ~IsNone(obj.ns_string)
                   /\ Val(obj.ns_string).type = "str"
             THEN <<Ctl>> \o Val(obj.ns_string).s
           ELSE <<Hi>>)
          \o ArchiveStrings(Tail(objects))

ArchivePayload(objects) ==
  [data |-> <<"b", "p", "l", "i", "s", "t", "0", "0">> \o ArchiveStrings(objects), plist |-> Archive(objects)]

\* The pieces the bytes of a payload that is no property list are made of.
Chunks ==
  { <<Ctl>>, <<Hi>>, <<Hi, Hi, Hi>>, <<"s", "e", "e", " ", "y", "o", "u", " ", "a", "t", " ", "5">>, <<"N", "S", "S", "t", "r", "i", "n", "g">>, <<"s", "t", "r", "e", "a", "m", "t", "y", "p", "e", "d">>, <<"#", "+", "#">>,
    <<"$", "5">>, <<"h", "e", "y">>, <<" ">> }

RECURSIVE Concat(_)
Concat(pieces) ==
  IF pieces = <<>> THEN <<>> ELSE Head(pieces) \o Concat(Tail(pieces))

RawPayload(pieces) == [data |-> Concat(pieces), plist |-> PlistInvalid]

\* A property list that is no keyed archive.
PlainPlistPayload == [data |-> <<"b", "p", "l", "i", "s", "t", "0", "0">> \o <<Hi, Ctl>>, plist |-> PlistOther]

EmptyPayload == [data |-> <<>>, plist |-> PlistInvalid]

\* The payloads the decoder is given.
Payloads ==
  {ArchivePayload(objects) :
     objects \in UNION {[1..n -> ArchiveObjects] : n \in 0..MaxObjects}}
  \cup {RawPayload(pieces) :
          pieces \in UNION {[1..n -> Chunks] : n \in 0..MaxChunks}}
  \cup {PlainPlistPayload}

NoDecode == [text |-> None, tier |-> 0, tried |-> <<>>]

\* ====================================================== the message store

\* MessageType.all_types(), MessageService.all_services().
all_types == {"text", "attachment"}

all_services == {"iMessage", "SMS"}

\* Hours in a calendar day: a row's date column is modelled in whole local
\* hours since the store's epoch.
HoursPerDay == 24

\* date(datetime(message.date/1000000000 + strftime('%s','2001-01-01'),
\*      'unixepoch', 'localtime')): the local calendar day of a stored date.
LocalDay(raw_date) == raw_date \div HoursPerDay

Phone == <<"+", "1", "5", "5", "5", "0", "1", "0", "0", "0", "0", "1">>

Phone10 == <<"5", "5", "5", "0", "1", "0", "0", "0", "0", "1">>

Email == <<"a", "@", "b", ".", "c">>

\* One joined row of  message LEFT JOIN handle LEFT JOIN ... attachment,
\* with the message's attributedBody column (NULL or a payload).
Row(id, text, body, handle, date, me, service, read, att) ==
  [ROWID |-> id, text |-> text, attributedBody |-> body, handle_id |-> handle,
   date |-> date, is_from_me |-> me, service |-> service, is_read |-> read,
   cache_has_attachments |-> att]

\* The rich text of a message whose text column is NULL.
HelloBody == ArchivePayload(<<PObject(TRUE, Some(PStr(<<"H", "e", "l", "l", "o", " ", "t", "h", "e", "r", "e">>)))>>)

\* The rich text of a message that is only an attachment: no text in it.
AttachmentBody == RawPayload(<<<<Ctl>>, <<Hi>>>>)

\* The rows a store is drawn from: plain text, attachment only, neither text
\* nor attachment (NULL text, with its text in the rich-text column, and
\* empty text), both, and a foreign service.
RowPool ==
  { Row(1, Some(<<"H", "i">>), None, Some(Phone), 30, FALSE, "iMessage", TRUE, FALSE),
    Row(2, None, Some(AttachmentBody), Some(Phone), 50, FALSE, "SMS", FALSE, TRUE),
    Row(3, None, Some(HelloBody), None, 52, TRUE, "iMessage", TRUE, FALSE),
    Row(4, Some(<<>>), None, Some(Email), 75, FALSE, "SMS", FALSE, FALSE),
    Row(5, Some(<<"y", "o">>), None, Some(Phone), 60, TRUE, "iMessage", FALSE, TRUE),
    Row(6, Some(<<"h", "i", " ", "a">>), None, Some(Email), 49, FALSE, "RCS", TRUE, FALSE) }

Stores == {s \in SUBSET RowPool : Cardinality(s) <= MaxRows}

\* ====================================================== search arguments

Filters(content, sender, start_date, end_date, message_types, services, read_status, has_attachments) ==
  [content |-> content, sender |-> sender, start_date |-> start_date,
   end_date |-> end_date, message_types |-> message_types,
   services |-> services, read_status |-> read_status,
   has_attachments |-> has_attachments]

\* search_messages() called with every filter left at its default.
NoFilters == Filters(None, None, None, None, None, None, None, None)

Contents == {None, Some(<<"h", "i">>), Some(<<"_">>)}

Senders == {None, Some(Phone10), Some(<<"M", "e">>)}

Dates == {None, Some(2)}

TypeLists == {None, Some(<<"text">>), Some(<<"attachment">>), Some(<<"bogus">>)}

ServiceLists ==
  {None, Some(<<"iMessage">>), Some(<<"iMessage", "bogus">>), Some(<<"bogus">>)}

Flags == {None, Some(TRUE), Some(FALSE)}

Pages == {1, 2}

PageSizes == {1, 2}

\* The filter sets searched with: none, each filter alone with each of its
\* values, and the combinations the test suite searches with.
FilterSets ==
  {NoFilters}
  \cup {[NoFilters EXCEPT !.content = c] : c \in Contents \ {None}}
  \cup {[NoFilters EXCEPT !.sender = x] : x \in Senders \ {None}}
  \cup {[NoFilters EXCEPT !.start_date = d] : d \in Dates \ {None}}
  \cup {[NoFilters EXCEPT !.end_date = d] : d \in Dates \ {None}}
  \cup {[NoFilters EXCEPT !.message_types = t] : t \in TypeLists \ {None}}
  \cup {[NoFilters EXCEPT !.services = x] : x \in ServiceLists \ {None}}
  \cup {[NoFilters EXCEPT !.read_status = b] : b \in Flags \ {None}}
  \cup {[NoFilters EXCEPT !.has_attachments = b] : b \in Flags \ {None}}
  \cup { \* test_04_combined_filters
         Filters(None, None, Some(2), Some(2), Some(<<"attachment">>),
                 Some(<<"iMessage">>), Some(FALSE), None),
         \* test_05_invalid_filters, mixed valid and invalid values
         Filters(None, None, None, None, Some(<<"text", "invalid_type">>),
                 Some(<<"iMessage", "invalid_service">>), None, None),
         \* test_05_combined_search
         Filters(Some(<<"h", "i">>), Some(Phone), Some(1), Some(2),
                 None, None, None, None),
         \* both message types
         Filters(None, None, None, None, Some(<<"text", "attachment">>),
                 None, None, None),
         \* a one-day range with a read filter
         Filters(None, None, Some(2), Some(2), None, None, Some(TRUE), None),
         \* a wildcard content term with a service
         Filters(Some(<<"%">>), None, None, None, None, Some(<<"SMS">>),
                 None, None) }

\* Python truthiness of an optional string or list: None and empty are false.
Truthy(o) == ~IsNone(o) /\ Val(o) # <<>>

\* [t for t in message_types if t in MessageType.all_types()]
ValidTypes(message_types) == SelectSeq(message_types, LAMBDA t : t \in all_types)

\* Faulty variant: no service value is dropped.
ValidServices_KeepAll(services) == services

\* [s for s in services if s in MessageService.all_services()]
ValidServices(services) == SelectSeq(services, LAMBDA s : s \in all_services)

InSeq(x, s) == \E i \in 1..Len(s) : s[i] = x

\* ====================================================== the two store queries

\* WHERE clause of the page query (filtered_messages), with NULL comparisons
\* false as in SQL: the base predicate and one fragment per supplied filter.
PageWhere(row, f) ==
  /\ row.service \in {"SMS", "iMessage"}
  /\ Truthy(f.content) =>
       /\ ~IsNone(row.text)
       /\ LikeMatch(<<"%">> \o Val(f.content) \o <<"%">>, Val(row.text))
  /\ Truthy(f.message_types) =>
       LET valid_types == ValidTypes(Val(f.message_types))
       IN IF InSeq("attachment", valid_types)
            THEN (IF InSeq("text", valid_types) THEN TRUE
                  ELSE row.cache_has_attachments)
          ELSE IF InSeq("text", valid_types)
            THEN ~row.cache_has_attachments
          ELSE TRUE
  /\ Truthy(f.services) =>
       LET valid_services == ValidServices(Val(f.services))
       IN valid_services # <<>> => InSeq(row.service, valid_services)
  /\ ~IsNone(f.read_status) => row.is_read = Val(f.read_status)
  /\ ~IsNone(f.has_attachments) =>
       row.cache_has_attachments = Val(f.has_attachments)
  /\ Truthy(f.sender) =>
       /\ ~IsNone(row.handle_id)
       /\ \/ Val(row.handle_id) = Val(f.sender)
          \/ (row.is_from_me /\ Val(row.handle_id) = Val(f.sender))
  /\ ~IsNone(f.start_date) => LocalDay(row.date) >= Val(f.start_date)
  /\ ~IsNone(f.end_date) => LocalDay(row.date) <= Val(f.end_date)

\* ''.join(filter(str.isdigit, sender)), then '+1' before 10 digits and '+'
\* before 11 digits starting with 1.
NormalizeSender(sender) ==
  LET normalized_sender == SelectSeq(sender, LAMBDA c : c \in Digits)
  IN IF Len(normalized_sender) = 10
       THEN <<"+", "1">> \o normalized_sender
     ELSE IF Len(normalized_sender) = 11 /\ Head(normalized_sender) = "1"
       THEN <<"+">> \o normalized_sender
     ELSE normalized_sender

\* WHERE clause of the count query: its own base predicate and its own copy
\* of the filter fragments.
CountWhere(row, f) ==
  /\ ~IsNone(row.text) \/ row.cache_has_attachments
  /\ row.service \in {"SMS", "iMessage"}
  /\ (~IsNone(row.text) /\ Len(Val(row.text)) > 0) \/ row.cache_has_attachments
  /\ Truthy(f.content) =>
       /\ ~IsNone(row.text)
       /\ LikeMatch(<<"%">> \o Val(f.content) \o <<"%">>, Val(row.text))
  /\ Truthy(f.message_types) =>
       LET valid_types == ValidTypes(Val(f.message_types))
       IN IF InSeq("attachment", valid_types)
            THEN (IF InSeq("text", valid_types) THEN TRUE
                  ELSE row.cache_has_attachments)
          ELSE IF InSeq("text", valid_types)
            THEN ~row.cache_has_attachments
          ELSE TRUE
  /\ Truthy(f.services) =>
       LET valid_services == ValidServices(Val(f.services))
       IN valid_services # <<>> => InSeq(row.service, valid_services)
  /\ ~IsNone(f.read_status) => row.is_read = Val(f.read_status)
  /\ ~IsNone(f.has_attachments) =>
       row.cache_has_attachments = Val(f.has_attachments)
  /\ Truthy(f.sender) =>
       \/ (~IsNone(row.handle_id)
             /\ Val(row.handle_id) = NormalizeSender(Val(f.sender)))
       \/ (row.is_from_me /\ Lower(Val(f.sender)) \in {<<"m", "e">>, <<"s", "e", "l", "f">>})
  /\ ~IsNone(f.start_date) => LocalDay(row.date) >= Val(f.start_date)
  /\ ~IsNone(f.end_date) => LocalDay(row.date) <= Val(f.end_date)

\* ORDER BY raw_date DESC over a set of rows; rows with equal dates are
\* taken in ROWID order.
RECURSIVE OrderByDateDesc(_)
OrderByDateDesc(rows) ==
  IF rows = {} THEN <<>>
  ELSE LET first == CHOOSE r \in rows : \A q \in rows :
                      \/ r.date > q.date
                      \/ (r.date = q.date /\ r.ROWID <= q.ROWID)
       IN <<first>> \o OrderByDateDesc(rows \ {first})

\* LIMIT limit OFFSET offset over an ordered result.
LimitOffset(rows, limit, offset) ==
  SubSeq(rows, offset + 1,
         IF offset + limit < Len(rows) THEN offset + limit ELSE Len(rows))

\* The page query: SELECT * FROM filtered_messages ORDER BY raw_date DESC
\* LIMIT ? OFFSET ?.
PageQuery(db, f, page_size, offset) ==
  LimitOffset(OrderByDateDesc({row \in db : PageWhere(row, f)}),
              page_size, offset)

\* Faulty variant: the count grows with the searches recorded so far.
CountQuery_CountsHistory(db, f) ==
  Cardinality({row \in db : CountWhere(row, f)}) + Len(history)

\* The count query: SELECT COUNT(*) FROM (SELECT 1 FROM ... WHERE ...).
CountQuery(db, f) == Cardinality({row \in db : CountWhere(row, f)})

\* One result row formatted as a message dictionary.
FormatRow(row) ==
  [text |-> row.text,
   sender |-> IF row.is_from_me THEN <<"m", "e">>
              ELSE IF Truthy(row.handle_id) THEN Val(row.handle_id)
              ELSE <<"u", "n", "k", "n", "o", "w", "n">>,
   timestamp |-> row.date,
   is_from_me |-> row.is_from_me,
   service |-> row.service,
   is_read |-> row.is_read,
   has_attachment |-> row.cache_has_attachments]

\* SearchResult.__init__: total_pages is the ceiling of total_count/page_size.
SearchResult(msgs, total_count, page, page_size) ==
  [status |-> "returned", messages |-> msgs, total_count |-> total_count,
   page |-> page, page_size |-> page_size,
   total_pages |-> (total_count + page_size - 1) \div page_size]

\* search_messages raised MessageReadError: no SearchResult exists.
RaisedResult ==
  [status |-> "raised", messages |-> <<>>, total_count |-> 0,
   page |-> 0, page_size |-> 0, total_pages |-> 0]

\* No call has been made yet.
NoResult ==
  [status |-> "none", messages |-> <<>>, total_count |-> 0,
   page |-> 0, page_size |-> 0, total_pages |-> 0]

\* ====================================================== the search history

\* "Keep only last 100 searches".
HistoryLimit == 100

\* The entry add_search builds.  (Its wall-clock timestamp is not modelled.)
SearchEntry(content, sender, start_date, end_date, result_count) ==
  [criteria |-> [content |-> content, sender |-> sender,
                 start_date |-> start_date, end_date |-> end_date],
   result_count |-> result_count]

\* Faulty variant: the list is never cut.
add_search_NoLimit(h, content, sender, start_date, end_date, result_count) ==
  <<SearchEntry(content, sender, start_date, end_date, result_count)>> \o h

\* SearchHistory.add_search up to the save: the entry goes to the front and
\* the list is cut to the limit.
add_search(h, content, sender, start_date, end_date, result_count) ==
  LET search_entry == SearchEntry(content, sender, start_date, end_date, result_count)
      inserted == <<search_entry>> \o h
  IN IF Len(inserted) > HistoryLimit
       THEN SubSeq(inserted, 1, HistoryLimit)
     ELSE inserted

\* An entry of an earlier session, as _load_history reads it from the file.
OldEntry ==
  [criteria |-> [content |-> Some(<<"y", "o">>), sender |-> None,
                 start_date |-> None, end_date |-> None],
   result_count |-> 1]

InitialHistories == {<<>>, <<OldEntry>>}

\* The history file: its entries, or unreadable JSON left by a failed write.
FileOf(entries) == [ok |-> TRUE, entries |-> entries]

CorruptFile == [ok |-> FALSE, entries |-> <<>>]

\* SearchHistory._load_history: the file's list, [] on a JSON decode error.
LoadHistory(file) == IF file.ok THEN file.entries ELSE <<>>

\* SearchHistory._save_history: open(..., 'w') and json.dump inside a try
\* that logs every failure.  The file then holds the list, is untouched
\* (open failed), or is left truncated (the write failed).
SaveHistory(file, h, outcome) ==
  CASE outcome = "saved" -> FileOf(h)
    [] outcome = "open_failed" -> file
    [] OTHER -> CorruptFile

SaveOutcomes == {"saved", "open_failed", "write_failed"}

\* _execute_query raising DatabaseAccessError on the page query, on the count
\* query, or on neither; the query that fails is rejected by cursor.execute.
QueryFaults == {"none", "page", "count"}

\* The connections search_messages leaves behind: _execute_query opens one
\* per query and does not close it, and the count query runs only after the
\* page query has succeeded.
LeftOpenBy(fault) == IF fault = "page" THEN 1 ELSE 2

NoCall == [filters |-> NoFilters, page |-> 0, page_size |-> 0]

\* What the store and the history file did during the latest call: the
\* query that failed and the outcome of the save ("none" when not reached).
NoIo == [fault |-> "none", save |-> "none"]

\* ====================================================== search_messages

\* Faulty variant: a failed save of the history is raised to the caller.
search_messages_SaveFailureRaises(f, page, page_size, fault, save) ==
  /\ call' = [filters |-> f, page |-> page, page_size |-> page_size]
  /\ previous' = result
  /\ LET offset == (page - 1) * page_size
         results == PageQuery(store, f, page_size, offset)
         total_count == CountQuery(store, f)
         msgs == [i \in 1..Len(results) |-> FormatRow(results[i])]
     IN IF fault # "none"
          THEN /\ result' = RaisedResult
               /\ pc' = IF pc = "idle" THEN "raised" ELSE "raised_again"
               /\ io' = [fault |-> fault, save |-> "none"]
               /\ UNCHANGED <<history, historyFile>>
        ELSE /\ history' = add_search(history, f.content, f.sender,
                                      f.start_date, f.end_date, total_count)
             /\ historyFile' = SaveHistory(historyFile, history', save)
             /\ io' = [fault |-> "none", save |-> save]
             /\ IF save = "saved"
                  THEN /\ result' = SearchResult(msgs, total_count, page, page_size)
                       /\ pc' = IF pc = "idle" THEN "returned" ELSE "returned_again"
                ELSE /\ result' = RaisedResult
                     /\ pc' = IF pc = "idle" THEN "raised" ELSE "raised_again"
  /\ connections' = connections + LeftOpenBy(fault)
  /\ UNCHANGED store
  /\ UNCHANGED <<threadVars, decodeVars, queries, cpc, historyVars>>

\* Faulty variant: the search is recorded before the count query runs, so a
\* failed count query leaves an entry behind.
search_messages_RecordsBeforeCount(f, page, page_size, fault, save) ==
  /\ call' = [filters |-> f, page |-> page, page_size |-> page_size]
  /\ previous' = result
  /\ LET offset == (page - 1) * page_size
         results == PageQuery(store, f, page_size, offset)
         total_count == CountQuery(store, f)
         msgs == [i \in 1..Len(results) |-> FormatRow(results[i])]
     IN /\ IF fault = "page"
             THEN UNCHANGED <<history, historyFile>>
           ELSE /\ history' = add_search(history, f.content, f.sender,
                                         f.start_date, f.end_date, Len(results))
                /\ historyFile' = SaveHistory(historyFile, history', save)
        /\ IF fault # "none"
             THEN /\ result' = RaisedResult
                  /\ pc' = IF pc = "idle" THEN "raised" ELSE "raised_again"
                  /\ io' = [fault |-> fault, save |-> "none"]
           ELSE /\ result' = SearchResult(msgs, total_count, page, page_size)
                /\ pc' = IF pc = "idle" THEN "returned" ELSE "returned_again"
                /\ io' = [fault |-> "none", save |-> save]
  /\ connections' = connections + LeftOpenBy(fault)
  /\ UNCHANGED store
  /\ UNCHANGED <<threadVars, decodeVars, queries, cpc, historyVars>>

\* MessageReader.search_messages, whole: page query, count query, row
\* formatting, history tracking, SearchResult; a failed store query is
\* re-raised as MessageReadError before anything is recorded.
search_messages(f, page, page_size, fault, save) ==
  /\ call' = [filters |-> f, page |-> page, page_size |-> page_size]
  /\ previous' = result
  /\ LET offset == (page - 1) * page_size
         results == PageQuery(store, f, page_size, offset)
         total_count == CountQuery(store, f)
         msgs == [i \in 1..Len(results) |-> FormatRow(results[i])]
     IN IF fault # "none"
          THEN /\ result' = RaisedResult
               /\ pc' = IF pc = "idle" THEN "raised" ELSE "raised_again"
               /\ io' = [fault |-> fault, save |-> "none"]
               /\ UNCHANGED <<history, historyFile>>
        ELSE /\ history' = add_search(history, f.content, f.sender,
                                      f.start_date, f.end_date, total_count)
             /\ historyFile' = SaveHistory(historyFile, history', save)
             /\ result' = SearchResult(msgs, total_count, page, page_size)
             /\ pc' = IF pc = "idle" THEN "returned" ELSE "returned_again"
             /\ io' = [fault |-> "none", save |-> save]
  /\ connections' = connections + LeftOpenBy(fault)
  /\ UNCHANGED store
  /\ UNCHANGED <<threadVars, decodeVars, queries, cpc, historyVars>>

Search ==
  /\ pc = "idle"
  /\ \E f \in FilterSets, page \in Pages, page_size \in PageSizes,
        fault \in QueryFaults :
       \E save \in (IF fault = "none" THEN SaveOutcomes ELSE {"saved"}) :
         search_messages(f, page, page_size, fault, save)

\* The caller repeats the search it just made: the same filters, page and
\* page_size, on the unchanged store.
SearchAgain ==
  /\ pc = "returned"
  /\ \E fault \in QueryFaults :
       \E save \in (IF fault = "none" THEN SaveOutcomes ELSE {"saved"}) :
         search_messages(call.filters, call.page, call.page_size, fault, save)

\* MessageReader.__init__ over a store and a history file of an earlier
\* session; the thread detector is not in use.
SearchInit ==
  /\ store \in Stores
  /\ historyFile \in {FileOf(h) : h \in InitialHistories}
  /\ history = LoadHistory(historyFile)
  /\ call = NoCall
  /\ result = NoResult
  /\ previous = NoResult
  /\ io = NoIo
  /\ pc = "idle"
  /\ messages = <<>>
  /\ threads = <<>>
  /\ groups = [max_days_apart |-> 0, list |-> <<>>]
  /\ merged = [status |-> "none", thread_ids |-> <<>>, thread |-> <<>>]
  /\ tpc = "unused"
  /\ payload = [data |-> <<>>, plist |-> [kind |-> "invalid", objects |-> <<>>]]
  /\ decoded = [text |-> <<>>, tier |-> 0, tried |-> <<>>]
  /\ dpc = "unused"
  /\ connections = 0
  /\ queries = <<>>
  /\ cpc = "unused"
  /\ loaded = <<>>
  /\ added = <<>>
  /\ hpc = "unused"

SearchNext == Search \/ SearchAgain

SearchSpec == SearchInit /\ [][SearchNext]_vars

\* ---------------------------------------------------------- decoder action

\* A caller hands the payload to the decoder.
extract_text_from_attributed_body ==
  /\ dpc = "idle"
  /\ decoded' = ExtractTextFromAttributedBody(payload)
  /\ dpc' = "returned"
  /\ UNCHANGED payload
  /\ UNCHANGED <<searchVars, threadVars, connVars, historyVars>>

DecodeInit ==
  /\ payload \in Payloads
  /\ decoded = NoDecode
  /\ dpc = "idle"
  /\ store = {}
  /\ historyFile = FileOf(<<>>)
  /\ history = <<>>
  /\ call = NoCall
  /\ result = NoResult
  /\ previous = NoResult
  /\ io = NoIo
  /\ pc = "unused"
  /\ messages = <<>>
  /\ threads = <<>>
  /\ groups = [max_days_apart |-> 0, list |-> <<>>]
  /\ merged = [status |-> "none", thread_ids |-> <<>>, thread |-> <<>>]
  /\ tpc = "unused"
  /\ connections = 0
  /\ queries = <<>>
  /\ cpc = "unused"
  /\ loaded = <<>>
  /\ added = <<>>
  /\ hpc = "unused"

DecodeNext == extract_text_from_attributed_body

DecodeSpec == DecodeInit /\ [][DecodeNext]_vars

\* ====================================================== store connections

\* How a query on a fresh connection ends: it returns its rows,
\* sqlite3.connect raises, or cursor.execute raises.
QueryOutcomes == {"ok", "connect_failed", "execute_failed"}

\* Whether sqlite3.connect handed out a connection.
Connected(outcome) == outcome # "connect_failed"

\* MessageReader._execute_query: the connections it leaves open.  The block
\* `with sqlite3.connect(...) as conn` commits or rolls back on exit and does
\* not close; no close() follows on any path.
ExecuteQueryLeavesOpen(outcome) == IF Connected(outcome) THEN 1 ELSE 0

\* DatabaseConnector.get_connection around a query: the finally clause
\* closes whatever connect returned, so nothing is left open.
GetConnectionLeavesOpen(outcome) ==
  LET opened == IF Connected(outcome) THEN 1 ELSE 0
      closed == IF Connected(outcome) THEN 1 ELSE 0
  IN opened - closed

QueryCall(op, outcome) == [op |-> op, outcome |-> outcome]

\* MessageReader._execute_query, whole.
execute_query(outcome) ==
  /\ Len(queries) < MaxCalls
  /\ connections' = connections + ExecuteQueryLeavesOpen(outcome)
  /\ queries' = Append(queries, QueryCall("execute_query", outcome))
  /\ cpc' = IF outcome = "ok" THEN "returned" ELSE "raised"
  /\ UNCHANGED <<searchVars, threadVars, decodeVars, historyVars>>

ExecuteQuery == \E outcome \in QueryOutcomes : execute_query(outcome)

\* A DatabaseConnector query method: `with self.get_connection() as conn`
\* around execute and fetchall.
get_connection(outcome) ==
  /\ Len(queries) < MaxCalls
  /\ connections' = connections + GetConnectionLeavesOpen(outcome)
  /\ queries' = Append(queries, QueryCall("get_connection", outcome))
  /\ cpc' = IF outcome = "ok" THEN "returned" ELSE "raised"
  /\ UNCHANGED <<searchVars, threadVars, decodeVars, historyVars>>

GetConnection == \E outcome \in QueryOutcomes : get_connection(outcome)

\* Between calls the interpreter's collector may finalise some of the
\* connection objects nothing refers to any more, which closes them.
CollectGarbage ==
  /\ connections > 0
  /\ \E k \in 1..connections : connections' = connections - k
  /\ cpc' = "collected"
  /\ UNCHANGED queries
  /\ UNCHANGED <<searchVars, threadVars, decodeVars, historyVars>>

\* A process that has made no query yet; the reader's search, the decoder
\* and the thread detector are not in use.
ConnInit ==
  /\ connections = 0
  /\ queries = <<>>
  /\ cpc = "idle"
  /\ store = {}
  /\ historyFile = FileOf(<<>>)
  /\ history = <<>>
  /\ call = NoCall
  /\ result = NoResult
  /\ previous = NoResult
  /\ io = NoIo
  /\ pc = "unused"
  /\ messages = <<>>
  /\ threads = <<>>
  /\ groups = [max_days_apart |-> 0, list |-> <<>>]
  /\ merged = [status |-> "none", thread_ids |-> <<>>, thread |-> <<>>]
  /\ tpc = "unused"
  /\ payload = [data |-> <<>>, plist |-> [kind |-> "invalid", objects |-> <<>>]]
  /\ decoded = [text |-> <<>>, tier |-> 0, tried |-> <<>>]
  /\ dpc = "unused"
  /\ loaded = <<>>
  /\ added = <<>>
  /\ hpc = "unused"

ConnNext == ExecuteQuery \/ GetConnection \/ CollectGarbage

ConnSpec == ConnInit /\ [][ConnNext]_vars

\* ====================================================== SearchHistory on its own

\* An entry left by an earlier session; result_count tells the entries apart.
EarlierEntry(n) == SearchEntry(Some(<<"y", "o">>), None, None, None, n)

\* The lists a history file written by an earlier session holds: none, one,
\* and enough entries for the limit to be one or two calls away or reached.
LoadedHistories ==
  {[k \in 1..n |-> EarlierEntry(k)] : n \in {0, 1, HistoryLimit - 2, HistoryLimit - 1, HistoryLimit}}

\* The arguments add_search is called with.
AddedContents == {None, Some(<<"h", "i">>)}

AddedCounts == {0, 1}

\* SearchHistory.add_search, whole: insert, cut, save.
add_search_call(content, sender, start_date, end_date, result_count, save) ==
  /\ Len(added) < MaxAdds
  /\ history' = add_search(history, content, sender, start_date, end_date, result_count)
  /\ historyFile' = SaveHistory(historyFile, history', save)
  /\ added' = Append(added, SearchEntry(content, sender, start_date, end_date, result_count))
  /\ hpc' = "added"
  /\ UNCHANGED <<loaded, store, call, result, previous, io, pc>>
  /\ UNCHANGED <<threadVars, decodeVars, connVars>>

AddSearch ==
  \E content \in AddedContents, result_count \in AddedCounts, save \in SaveOutcomes :
    add_search_call(content, None, None, None, result_count, save)

\* SearchHistory.__init__ over the file of an earlier session.
HistoryInit ==
  /\ historyFile \in {FileOf(h) : h \in LoadedHistories}
  /\ history = LoadHistory(historyFile)
  /\ loaded = history
  /\ added = <<>>
  /\ hpc = "idle"
  /\ store = {}
  /\ call = NoCall
  /\ result = NoResult
  /\ previous = NoResult
  /\ io = NoIo
  /\ pc = "unused"
  /\ messages = <<>>
  /\ threads = <<>>
  /\ groups = [max_days_apart |-> 0, list |-> <<>>]
  /\ merged = [status |-> "none", thread_ids |-> <<>>, thread |-> <<>>]
  /\ tpc = "unused"
  /\ payload = [data |-> <<>>, plist |-> [kind |-> "invalid", objects |-> <<>>]]
  /\ decoded = [text |-> <<>>, tier |-> 0, tried |-> <<>>]
  /\ dpc = "unused"
  /\ connections = 0
  /\ queries = <<>>
  /\ cpc = "unused"

HistoryNext == AddSearch

HistorySpec == HistoryInit /\ [][HistoryNext]_vars

\* ====================================================== thread detector

\* ThreadDetector.__init__ defaults: time_gap_hours = 4 and
\* similarity_threshold = 0.3, kept as the fraction 3/10.
time_gap_hours == 4

similarity_threshold_num == 3

similarity_threshold_den == 10

\* Message times are whole minutes; total_seconds() / 3600 is hours.
MinutesPerHour == 60

MinutesPerDay == 1440

\* The characters \w matches.
WordChars == LowerCase \cup UpperCase \cup Digits \cup {"_"}

\* set(re.findall(r'\b\w+\b', s)): the maximal runs of word characters of s.
RECURSIVE TokensFrom(_, _, _, _)
TokensFrom(s, i, cur, acc) ==
  IF i > Len(s) THEN (IF cur = <<>> THEN acc ELSE acc \cup {cur})
  ELSE IF s[i] \in WordChars THEN TokensFrom(s, i + 1, Append(cur, s[i]), acc)
  ELSE TokensFrom(s, i + 1, <<>>, IF cur = <<>> THEN acc ELSE acc \cup {cur})

Words(s) == TokensFrom(s, 1, <<>>, {})

\* A message's 'date': an ISO string t minutes after a base instant, the
\* key absent (get's default ''), a string fromisoformat rejects, or None.
IsoDate(t) == [kind |-> "iso", t |-> t]

MissingDate == [kind |-> "missing", t |-> 0]

BadDate == [kind |-> "bad", t |-> 0]

NoneDate == [kind |-> "none", t |-> 0]

Msg(date, text, me, sender) ==
  [date |-> date, text |-> text, is_from_me |-> me, sender |-> sender]

\* The sender the reader gives a message of the archive owner.
Owner == <<"m", "e">>

\* The messages an input list is drawn from.  Text is None, or Some(string);
\* the sender is the owner or one of two contacts.
MsgPool ==
  { Msg(IsoDate(0), Some(<<"c", " ", "d">>), TRUE, Owner),
    Msg(IsoDate(60), Some(<<"b", " ", "c", " ", "d">>), FALSE, Phone),
    Msg(IsoDate(60), None, FALSE, Email),
    Msg(IsoDate(270), Some(<<"B", " ", "c">>), TRUE, Owner),
    Msg(IsoDate(270), Some(<<"x">>), FALSE, Email),
    Msg(IsoDate(360), Some(<<"c", " ", "a">>), TRUE, Owner),
    Msg(IsoDate(365), Some(<<>>), FALSE, Phone),
    Msg(IsoDate(3000), Some(<<"x", " ", "d">>), FALSE, Phone),
    Msg(IsoDate(6000), Some(<<"x">>), FALSE, Phone),
    Msg(MissingDate, Some(<<"h", "i">>), FALSE, Phone),
    Msg(BadDate, Some(<<"b">>), TRUE, Owner),
    Msg(NoneDate, Some(<<"d">>), FALSE, Email) }

\* Lists of distinct pool messages, in any order.
InputLists ==
  {l \in UNION {[1..n -> MsgPool] : n \in 0..MaxMsgs} :
     \A i, j \in 1..Len(l) : i # j => l[i] # l[j]}

\* str < str on two 'date' keys: '' sorts first, ISO strings of one format
\* sort chronologically, and 'not-a-date' sorts after every digit.
DateLess(a, b) ==
  CASE a.kind = "missing" -> b.kind # "missing"
    [] a.kind = "iso" -> (b.kind = "iso" /\ a.t < b.t) \/ b.kind = "bad"
    [] OTHER -> FALSE

\* Where a stable sort puts x into an already sorted list: after every
\* element that is not greater.
RECURSIVE InsertByDate(_, _)
InsertByDate(sorted, x) ==
  IF sorted = <<>> THEN <<x>>
  ELSE IF DateLess(x.date, Head(sorted).date) THEN <<x>> \o sorted
  ELSE <<Head(sorted)>> \o InsertByDate(Tail(sorted), x)

\* Faulty variant: the input is taken in the order supplied (the sort is lost).
SortByDate_Unsorted(msgs) == msgs

\* sorted(messages, key=lambda m: m.get('date', '')): stable.
RECURSIVE SortByDate(_)
SortByDate(msgs) ==
  IF msgs = <<>> THEN <<>>
  ELSE InsertByDate(SortByDate(SubSeq(msgs, 1, Len(msgs) - 1)), msgs[Len(msgs)])

\* Comparing a None key with any other key raises TypeError; a list of one
\* element is sorted without a comparison.
SortRaises(msgs) ==
  Len(msgs) >= 2 /\ \E i \in 1..Len(msgs) : msgs[i].date.kind = "none"

\* _calculate_time_gap in minutes; None is float('inf'), returned when
\* either fromisoformat raises.
CalculateTimeGap(msg1, msg2) ==
  IF msg1.date.kind = "iso" /\ msg2.date.kind = "iso"
    THEN Some(IF msg2.date.t >= msg1.date.t
                THEN msg2.date.t - msg1.date.t
              ELSE msg1.date.t - msg2.date.t)
  ELSE None

\* thread[-n:]
LastN(seq, n) == SubSeq(seq, IF Len(seq) > n THEN Len(seq) - n + 1 ELSE 1, Len(seq))

\* thread[:n]
FirstN(seq, n) == SubSeq(seq, 1, IF Len(seq) > n THEN n ELSE Len(seq))

RECURSIVE UnionOfWords(_)
UnionOfWords(msgs) ==
  IF msgs = <<>> THEN {}
  ELSE Words(Lower(Val(Head(msgs).text))) \cup UnionOfWords(Tail(msgs))

\* _calculate_content_similarity: the Jaccard similarity as a fraction
\* [num, den], or raised when a recent thread message has text None
\* (None.lower()).
CalculateContentSimilarity(message, thread) ==
  IF ~Truthy(message.text) THEN [raised |-> FALSE, num |-> 0, den |-> 1]
  ELSE LET message_words == Words(Lower(Val(message.text)))
           recent == LastN(thread, 5)
       IN IF \E i \in 1..Len(recent) : IsNone(recent[i].text)
            THEN [raised |-> TRUE, num |-> 0, den |-> 1]
          ELSE LET thread_words == UnionOfWords(recent)
                   intersection == Cardinality(message_words \cap thread_words)
                   union == Cardinality(message_words \cup thread_words)
               IN IF thread_words = {} \/ union = 0
                    THEN [raised |-> FALSE, num |-> 0, den |-> 1]
                  ELSE [raised |-> FALSE, num |-> intersection, den |-> union]

\* Faulty variant: the check against time_gap_hours is lost, so every gap above the
\* half window is decided by similarity.
BelongsToThread_NoGapLimit(message, thread) ==
  IF thread = <<>> THEN "no"
  ELSE LET time_gap == CalculateTimeGap(thread[Len(thread)], message)
       IN IF IsNone(time_gap) THEN "no"
          ELSE IF 2 * Val(time_gap) > time_gap_hours * MinutesPerHour
            THEN LET similarity == CalculateContentSimilarity(message, thread)
                 IN IF similarity.raised THEN "raise"
                    ELSE IF similarity.num * similarity_threshold_den
                              >= similarity_threshold_num * similarity.den
                      THEN "yes"
                    ELSE "no"
          ELSE "yes"

\* Faulty variant: the half window is compared with >= 0, so a small gap is decided
\* by similarity too.
BelongsToThread_AlwaysSimilarity(message, thread) ==
  IF thread = <<>> THEN "no"
  ELSE LET time_gap == CalculateTimeGap(thread[Len(thread)], message)
       IN IF IsNone(time_gap) THEN "no"
          ELSE IF Val(time_gap) > time_gap_hours * MinutesPerHour THEN "no"
          ELSE LET similarity == CalculateContentSimilarity(message, thread)
               IN IF similarity.raised THEN "raise"
                  ELSE IF similarity.num * similarity_threshold_den
                            >= similarity_threshold_num * similarity.den
                    THEN "yes"
                  ELSE "no"

\* _belongs_to_thread: "yes", "no", or "raise" when the similarity raises.
BelongsToThread(message, thread) ==
  IF thread = <<>> THEN "no"
  ELSE LET last_message == thread[Len(thread)]
           time_gap == CalculateTimeGap(last_message, message)
       IN IF IsNone(time_gap) THEN "no"
          ELSE IF Val(time_gap) > time_gap_hours * MinutesPerHour THEN "no"
          ELSE IF 2 * Val(time_gap) > time_gap_hours * MinutesPerHour
            THEN LET similarity == CalculateContentSimilarity(message, thread)
                 IN IF similarity.raised THEN "raise"
                    ELSE IF similarity.num * similarity_threshold_den
                              >= similarity_threshold_num * similarity.den
                      THEN "yes"
                    ELSE "no"
          ELSE "yes"

\* Faulty variant: every thread object gets the id 0.
CreateThreadObject_IdZero(msgs, thread_id) ==
  [thread_id |-> 0,
   messages |-> msgs,
   start_time |-> msgs[1].date,
   end_time |-> msgs[Len(msgs)].date,
   duration_minutes |-> IF msgs[1].date.kind = "iso" /\ msgs[Len(msgs)].date.kind = "iso"
                          THEN msgs[Len(msgs)].date.t - msgs[1].date.t ELSE 0,
   message_count |-> Len(msgs),
   participants |-> {IF msgs[i].is_from_me THEN "Me" ELSE "Contact" :
                       i \in 1..Len(msgs)}]

\* _create_thread_object for a non-empty list (topic_summary is not
\* modelled; duration is 0 when a time does not parse).
CreateThreadObject(msgs, thread_id) ==
  LET start_time == msgs[1].date
      end_time == msgs[Len(msgs)].date
  IN [thread_id |-> thread_id,
      messages |-> msgs,
      start_time |-> start_time,
      end_time |-> end_time,
      duration_minutes |-> IF start_time.kind = "iso" /\ end_time.kind = "iso"
                             THEN end_time.t - start_time.t ELSE 0,
      message_count |-> Len(msgs),
      participants |-> {IF msgs[i].is_from_me THEN "Me" ELSE "Contact" :
                          i \in 1..Len(msgs)}]

\* The loop of detect_threads from the i-th sorted message on.
RECURSIVE DetectLoop(_, _, _, _, _)
DetectLoop(sorted_messages, i, thread_list, current_thread, thread_id) ==
  IF i > Len(sorted_messages)
    THEN [raised |-> FALSE,
          threads |-> IF current_thread # <<>>
                        THEN Append(thread_list,
                                    CreateThreadObject(current_thread, thread_id))
                      ELSE thread_list]
  ELSE LET message == sorted_messages[i]
       IN IF current_thread = <<>>
            THEN DetectLoop(sorted_messages, i + 1, thread_list, <<message>>, thread_id)
          ELSE LET belongs == BelongsToThread(message, current_thread)
               IN IF belongs = "raise" THEN [raised |-> TRUE, threads |-> <<>>]
                  ELSE IF belongs = "yes"
                    THEN DetectLoop(sorted_messages, i + 1, thread_list,
                                    Append(current_thread, message), thread_id)
                  ELSE DetectLoop(sorted_messages, i + 1,
                                  Append(thread_list,
                                         CreateThreadObject(current_thread, thread_id)),
                                  <<message>>, thread_id + 1)

\* ThreadDetector.detect_threads: the threads, or raised.
DetectThreads(msgs) ==
  IF msgs = <<>> THEN [raised |-> FALSE, threads |-> <<>>]
  ELSE IF SortRaises(msgs) THEN [raised |-> TRUE, threads |-> <<>>]
  ELSE DetectLoop(SortByDate(msgs), 1, <<>>, <<>>, 0)

\* The stop words _are_threads_related removes.
common_words ==
  { <<"t", "h", "e">>,
    <<"a">>,
    <<"a", "n">>,
    <<"a", "n", "d">>,
    <<"o", "r">>,
    <<"b", "u", "t">>,
    <<"i", "n">>,
    <<"o", "n">>,
    <<"a", "t">>,
    <<"t", "o">>,
    <<"f", "o", "r">>,
    <<"i">>,
    <<"y", "o", "u">>,
    <<"w", "e">>,
    <<"t", "h", "e", "y">>,
    <<"i", "t">>,
    <<"i", "s">>,
    <<"a", "r", "e">>,
    <<"w", "a", "s">>,
    <<"w", "e", "r", "e">>,
    <<"b", "e", "e", "n">>,
    <<"h", "a", "v", "e">>,
    <<"h", "a", "s">>,
    <<"h", "a", "d">>,
    <<"d", "o">>,
    <<"d", "o", "e", "s">>,
    <<"d", "i", "d">>,
    <<"w", "i", "l", "l">>,
    <<"w", "o", "u", "l", "d">>,
    <<"c", "o", "u", "l", "d">>,
    <<"s", "h", "o", "u", "l", "d">>,
    <<"m", "a", "y">>,
    <<"m", "i", "g", "h", "t">>,
    <<"c", "a", "n">>,
    <<"t", "h", "i", "s">>,
    <<"t", "h", "a", "t">>,
    <<"t", "h", "e", "s", "e">>,
    <<"t", "h", "o", "s", "e">> }

Abs(n) == IF n < 0 THEN -n ELSE n

\* Faulty variant: the days between the threads are not looked at.
AreThreadsRelated_AnyDaysApart(thread1, thread2, max_days_apart) ==
  IF ~(thread1.end_time.kind = "iso" /\ thread2.start_time.kind = "iso")
    THEN "no"
  ELSE LET msgs1 == LastN(thread1.messages, 3)
           msgs2 == FirstN(thread2.messages, 3)
       IN IF \/ \E k \in 1..Len(msgs1) : IsNone(msgs1[k].text)
             \/ \E k \in 1..Len(msgs2) : IsNone(msgs2[k].text)
            THEN "raise"
          ELSE LET words1 == Words(Lower(JoinWithSpace([k \in 1..Len(msgs1) |-> Val(msgs1[k].text)]))) \ common_words
                   words2 == Words(Lower(JoinWithSpace([k \in 1..Len(msgs2) |-> Val(msgs2[k].text)]))) \ common_words
                   min_size == IF Cardinality(words1) < Cardinality(words2)
                                 THEN Cardinality(words1)
                               ELSE Cardinality(words2)
               IN IF words1 = {} \/ words2 = {} THEN "no"
                  ELSE IF Cardinality(words1 \cap words2) * 10 >= 3 * min_size THEN "yes"
                  ELSE "no"

\* _are_threads_related: "yes", "no", or "raise" when ' '.join meets a
\* text that is None.  timedelta.days is the floor of the difference in days.
AreThreadsRelated(thread1, thread2, max_days_apart) ==
  IF ~(thread1.end_time.kind = "iso" /\ thread2.start_time.kind = "iso")
    THEN "no"
  ELSE LET days_apart ==
             Abs((thread2.start_time.t - thread1.end_time.t) \div MinutesPerDay)
       IN IF days_apart > max_days_apart THEN "no"
          ELSE LET msgs1 == LastN(thread1.messages, 3)
                   msgs2 == FirstN(thread2.messages, 3)
               IN IF \/ \E k \in 1..Len(msgs1) : IsNone(msgs1[k].text)
                     \/ \E k \in 1..Len(msgs2) : IsNone(msgs2[k].text)
                    THEN "raise"
                  ELSE LET text1 == JoinWithSpace([k \in 1..Len(msgs1) |-> Val(msgs1[k].text)])
                           text2 == JoinWithSpace([k \in 1..Len(msgs2) |-> Val(msgs2[k].text)])
                           words1 == Words(Lower(text1)) \ common_words
                           words2 == Words(Lower(text2)) \ common_words
                           overlap == Cardinality(words1 \cap words2)
                           min_size == IF Cardinality(words1) < Cardinality(words2)
                                         THEN Cardinality(words1)
                                       ELSE Cardinality(words2)
                       IN IF words1 = {} \/ words2 = {} THEN "no"
                          ELSE IF overlap * 10 >= 3 * min_size THEN "yes"
                          ELSE "no"

\* Faulty variant: a thread already placed in a group is looked at again.
RECURSIVE GatherRelated_IgnoreProcessed(_, _, _, _, _, _)
GatherRelated_IgnoreProcessed(thread_list, i, j, group, processed, max_days_apart) ==
  IF j >= Len(thread_list)
    THEN [raised |-> FALSE, group |-> group, processed |-> processed]
  ELSE LET related == AreThreadsRelated(thread_list[i + 1], thread_list[j + 1],
                                        max_days_apart)
       IN IF related = "raise"
            THEN [raised |-> TRUE, group |-> group, processed |-> processed]
          ELSE IF related = "yes"
            THEN GatherRelated_IgnoreProcessed(thread_list, i, j + 1, Append(group, j),
                                               processed \cup {j}, max_days_apart)
          ELSE GatherRelated_IgnoreProcessed(thread_list, i, j + 1, group, processed,
                                             max_days_apart)

\* The inner loop of find_related_threads over j = from..len-1 (0-based):
\* the group and the processed set after it, or raised.
RECURSIVE GatherRelated(_, _, _, _, _, _)
GatherRelated(thread_list, i, j, group, processed, max_days_apart) ==
  IF j >= Len(thread_list)
    THEN [raised |-> FALSE, group |-> group, processed |-> processed]
  ELSE IF j \in processed
    THEN GatherRelated(thread_list, i, j + 1, group, processed, max_days_apart)
  ELSE LET related == AreThreadsRelated(thread_list[i + 1], thread_list[j + 1],
                                        max_days_apart)
       IN IF related = "raise"
            THEN [raised |-> TRUE, group |-> group, processed |-> processed]
          ELSE IF related = "yes"
            THEN GatherRelated(thread_list, i, j + 1, Append(group, j),
                               processed \cup {j}, max_days_apart)
          ELSE GatherRelated(thread_list, i, j + 1, group, processed,
                             max_days_apart)

\* Faulty variant: a group of the anchor alone is kept too.
KeepGroup_Any(group) == Len(group) >= 1

\* Whether a gathered group is kept: len(group) > 1.
KeepGroup(group) == Len(group) > 1

\* The outer loop of find_related_threads from index i (0-based) on.
RECURSIVE RelatedLoop(_, _, _, _, _)
RelatedLoop(thread_list, i, related_groups, processed, max_days_apart) ==
  IF i >= Len(thread_list) THEN [raised |-> FALSE, groups |-> related_groups]
  ELSE IF i \in processed
    THEN RelatedLoop(thread_list, i + 1, related_groups, processed, max_days_apart)
  ELSE LET gathered == GatherRelated(thread_list, i, i + 1, <<i>>,
                                     processed \cup {i}, max_days_apart)
       IN IF gathered.raised THEN [raised |-> TRUE, groups |-> <<>>]
          ELSE RelatedLoop(thread_list, i + 1,
                           IF KeepGroup(gathered.group)
                             THEN Append(related_groups, gathered.group)
                           ELSE related_groups,
                           gathered.processed, max_days_apart)

\* ThreadDetector.find_related_threads: groups of 0-based thread indices.
FindRelatedThreads(thread_list, max_days_apart) ==
  RelatedLoop(thread_list, 0, <<>>, {}, max_days_apart)

\* The messages of the listed threads in the order listed; an id outside
\* 0..len(threads)-1 is skipped.
RECURSIVE CollectMessages(_, _)
CollectMessages(thread_list, thread_ids) ==
  IF thread_ids = <<>> THEN <<>>
  ELSE LET thread_id == Head(thread_ids)
       IN (IF 0 <= thread_id /\ thread_id < Len(thread_list)
             THEN thread_list[thread_id + 1].messages
           ELSE <<>>)
          \o CollectMessages(thread_list, Tail(thread_ids))

\* ThreadDetector.merge_threads: status "thread" with the merged thread,
\* "empty" for the {} returned when no id is given or no message is
\* collected, or "raised" when the sort compares a None date.
MergeThreads(thread_list, thread_ids) ==
  IF thread_ids = <<>> THEN [status |-> "empty", thread |-> <<>>]
  ELSE LET all_messages == CollectMessages(thread_list, thread_ids)
       IN IF SortRaises(all_messages) THEN [status |-> "raised", thread |-> <<>>]
          ELSE IF all_messages = <<>> THEN [status |-> "empty", thread |-> <<>>]
          ELSE [status |-> "thread",
                thread |-> CreateThreadObject(SortByDate(all_messages),
                                              thread_ids[1])]

\* The thread_ids lists tried: none, one, a repeated id, two and three ids
\* in and out of list order, and ids out of range.
ThreadIdLists ==
  {<<>>, <<0>>, <<0, 0>>, <<1, 0>>, <<0, 2>>, <<2, 0, 1>>, <<1, 4>>, <<-1>>}

\* The values of max_days_apart tried; 7 is the default.
MaxDaysApart == {0, 2, 7}

\* ====================================================== detector actions

\* A caller hands a list to detect_threads.
detect_threads(msgs) ==
  /\ tpc = "idle"
  /\ messages' = msgs
  /\ LET r == DetectThreads(msgs)
     IN /\ threads' = r.threads
        /\ tpc' = IF r.raised THEN "detect_raised" ELSE "detected"
  /\ UNCHANGED <<groups, merged>>
  /\ UNCHANGED <<searchVars, decodeVars, connVars, historyVars>>

Detect ==
  /\ tpc = "idle"
  /\ \E msgs \in InputLists : detect_threads(msgs)

\* The caller passes the detected threads to find_related_threads.
find_related_threads(max_days_apart) ==
  /\ tpc = "detected"
  /\ LET r == FindRelatedThreads(threads, max_days_apart)
     IN /\ groups' = [max_days_apart |-> max_days_apart, list |-> r.groups]
        /\ tpc' = IF r.raised THEN "related_raised" ELSE "related"
  /\ UNCHANGED <<messages, threads, merged>>
  /\ UNCHANGED <<searchVars, decodeVars, connVars, historyVars>>

FindRelated ==
  /\ tpc = "detected"
  /\ \E max_days_apart \in MaxDaysApart : find_related_threads(max_days_apart)

NoGroups == [max_days_apart |-> 0, list |-> <<>>]

\* The caller merges some of the detected threads.
merge_threads(thread_ids) ==
  /\ tpc = "detected"
  /\ LET r == MergeThreads(threads, thread_ids)
     IN /\ merged' = [status |-> r.status, thread_ids |-> thread_ids,
                      thread |-> r.thread]
        /\ tpc' = IF r.status = "raised" THEN "merge_raised" ELSE "merged"
  /\ UNCHANGED <<messages, threads, groups>>
  /\ UNCHANGED <<searchVars, decodeVars, connVars, historyVars>>

Merge ==
  /\ tpc = "detected"
  /\ \E thread_ids \in ThreadIdLists : merge_threads(thread_ids)

NoMerge == [status |-> "none", thread_ids |-> <<>>, thread |-> <<>>]

\* A ThreadDetector with the default configuration; the reader is not in use.
ThreadInit ==
  /\ messages = <<>>
  /\ threads = <<>>
  /\ groups = NoGroups
  /\ merged = NoMerge
  /\ tpc = "idle"
  /\ store = {}
  /\ historyFile = FileOf(<<>>)
  /\ history = <<>>
  /\ call = NoCall
  /\ result = NoResult
  /\ previous = NoResult
  /\ io = NoIo
  /\ pc = "unused"
  /\ payload = EmptyPayload
  /\ decoded = NoDecode
  /\ dpc = "unused"
  /\ connections = 0
  /\ queries = <<>>
  /\ cpc = "unused"
  /\ loaded = <<>>
  /\ added = <<>>
  /\ hpc = "unused"

ThreadNext == Detect \/ FindRelated \/ Merge

ThreadSpec == ThreadInit /\ [][ThreadNext]_vars

\* ====================================================== properties: search

\* The rows of the store the page query's predicate set selects.
PageMatches(db, f) == {row \in db : PageWhere(row, f)}

\* A store row with text or an attachment, of a recognised service.
Eligible(row) ==
  /\ row.service \in all_services
  /\ (~IsNone(row.text) /\ Val(row.text) # <<>>) \/ row.cache_has_attachments

\* Lengths of the pages 1..n of one search, summed.
RECURSIVE SumPageSizes(_, _, _, _)
SumPageSizes(db, f, page_size, n) ==
  IF n = 0 THEN 0
  ELSE Len(PageQuery(db, f, page_size, (n - 1) * page_size))
         + SumPageSizes(db, f, page_size, n - 1)

\* C1: the total_count a search returns equals the number of rows that
\* satisfy the page query's predicates (the page query without LIMIT/OFFSET).
C1_CountMatchesPagePredicates ==
  pc = "returned" =>
    result.total_count = Cardinality(PageMatches(store, call.filters))

\* C2: every message of a returned page has non-empty text or an attachment.
C2_PageMessagesHaveContent ==
  pc = "returned" =>
    \A i \in 1..Len(result.messages) :
      \/ (~IsNone(result.messages[i].text) /\ Val(result.messages[i].text) # <<>>)
      \/ result.messages[i].has_attachment

\* C3: without filters total_count is the number of eligible rows, and the
\* pages 1..total_pages together hold total_count messages.
C3_NoFilterCountAndPageSum ==
  (pc = "returned" /\ call.filters = NoFilters) =>
    /\ result.total_count = Cardinality({row \in store : Eligible(row)})
    /\ SumPageSizes(store, NoFilters, call.page_size, result.total_pages)
         = result.total_count

\* Whether a returned message satisfies the filters other than content.
SatisfiesOtherFilters(m, f) ==
  /\ ~IsNone(f.read_status) => m.is_read = Val(f.read_status)
  /\ Truthy(f.services) =>
       (ValidServices(Val(f.services)) # <<>>
          => InSeq(m.service, ValidServices(Val(f.services))))
  /\ Truthy(f.message_types) =>
       /\ (InSeq("attachment", Val(f.message_types))
             /\ ~InSeq("text", Val(f.message_types))) => m.has_attachment
       /\ (InSeq("text", Val(f.message_types))
             /\ ~InSeq("attachment", Val(f.message_types))) => ~m.has_attachment
  /\ ~IsNone(f.has_attachments) => m.has_attachment = Val(f.has_attachments)
  /\ ~IsNone(f.start_date) => Val(f.start_date) <= LocalDay(m.timestamp)
  /\ ~IsNone(f.end_date) => LocalDay(m.timestamp) <= Val(f.end_date)

\* Whether a returned message's text contains the content term, ignoring case.
SatisfiesContent(m, f) ==
  Truthy(f.content) =>
    /\ ~IsNone(m.text)
    /\ Contains(Lower(Val(m.text)), Lower(Val(f.content)))

\* C4: every returned message satisfies every supplied filter: content
\* (substring, case-insensitive), read status, service, attachment/type and
\* the inclusive local-date range.
C4_ResultsSatisfyFilters ==
  pc = "returned" =>
    \A i \in 1..Len(result.messages) :
      /\ SatisfiesContent(result.messages[i], call.filters)
      /\ SatisfiesOtherFilters(result.messages[i], call.filters)

\* ====================================================== properties: threads

\* detect_threads has been called on messages.
DetectCalled == tpc # "idle"

\* detect_threads returned (threads holds its result).
DetectReturned ==
  tpc \in {"detected", "related", "related_raised", "merged", "merge_raised"}

\* The threads' message lists concatenated in emission order.
RECURSIVE Flatten(_)
Flatten(thread_list) ==
  IF thread_list = <<>> THEN <<>>
  ELSE Head(thread_list).messages \o Flatten(Tail(thread_list))

\* How often x occurs in seq.
Occurrences(seq, x) == Cardinality({i \in 1..Len(seq) : seq[i] = x})

\* Whether the thread list is a partition of msgs in ascending date order:
\* no thread empty, every message in exactly one thread, dates never falling.
IsOrderedPartition(thread_list, msgs) ==
  LET flat == Flatten(thread_list)
  IN /\ \A k \in 1..Len(thread_list) : thread_list[k].messages # <<>>
     /\ Len(flat) = Len(msgs)
     /\ \A i \in 1..Len(msgs) :
          Occurrences(flat, msgs[i]) = Occurrences(msgs, msgs[i])
     /\ \A i \in 1..(Len(flat) - 1) : ~DateLess(flat[i + 1].date, flat[i].date)

\* C5: detect_threads partitions its input: every message in exactly one
\* thread, no thread empty, the threads in order giving the input sorted by
\* date; [] gives [] and [m] gives one thread holding exactly m.
C5_DetectPartitionsInput ==
  DetectCalled =>
    /\ DetectReturned
    /\ IsOrderedPartition(threads, messages)
    /\ messages = <<>> => threads = <<>>
    /\ Len(messages) = 1 =>
         (Len(threads) = 1 /\ threads[1].messages = messages)

\* Two messages, both with ISO dates, gap minutes apart.
TwoMessagesApart(gap) ==
  /\ Len(messages) = 2
  /\ messages[1].date.kind = "iso"
  /\ messages[2].date.kind = "iso"
  /\ Abs(messages[1].date.t - messages[2].date.t) = gap

\* Of two messages, the earlier and the later one.
Earlier == IF messages[1].date.t <= messages[2].date.t THEN messages[1] ELSE messages[2]

Later == IF messages[1].date.t <= messages[2].date.t THEN messages[2] ELSE messages[1]

WordsOf(m) == IF IsNone(m.text) THEN {} ELSE Words(Lower(Val(m.text)))

\* The later message repeats at least 30% of the earlier one's vocabulary.
RepeatsVocabulary ==
  /\ WordsOf(Earlier) # {}
  /\ 10 * Cardinality(WordsOf(Later) \cap WordsOf(Earlier))
       >= 3 * Cardinality(WordsOf(Earlier))

\* The Jaccard similarity of the two messages' word sets is at least 0.3.
JaccardAtLeastThreshold ==
  /\ WordsOf(Earlier) \cup WordsOf(Later) # {}
  /\ 10 * Cardinality(WordsOf(Later) \cap WordsOf(Earlier))
       >= 3 * Cardinality(WordsOf(Later) \cup WordsOf(Earlier))

NoOverlap == WordsOf(Later) \cap WordsOf(Earlier) = {}

\* C6 as claimed: two messages 4.5 hours apart stay in one thread when the
\* second repeats at least 30% of the first's vocabulary, and split when the
\* overlap is 0%.
C6_HalfWindowAtFourAndAHalfHours ==
  (DetectCalled /\ TwoMessagesApart(270)) =>
    /\ DetectReturned
    /\ RepeatsVocabulary => Len(threads) = 1
    /\ NoOverlap => Len(threads) = 2

\* C6 amended: two messages 4.5 hours apart always split into two threads,
\* whatever their overlap; the similarity rule decides gaps over 2 and up to
\* 4 hours: two messages 3.5 hours apart, both with text, stay in one thread
\* when their Jaccard similarity is at least 0.3 and split when no word is
\* shared.
C6_SplitBeyondGapSimilarityWithin ==
  /\ (DetectCalled /\ TwoMessagesApart(270)) =>
       (DetectReturned /\ Len(threads) = 2)
  /\ (DetectCalled /\ TwoMessagesApart(210)
        /\ ~IsNone(messages[1].text) /\ ~IsNone(messages[2].text)) =>
       /\ DetectReturned
       /\ JaccardAtLeastThreshold => Len(threads) = 1
       /\ NoOverlap => Len(threads) = 2

\* C6 witness: two messages 4.5 hours apart, the second repeating at least
\* 30% of the first's vocabulary, were split into two threads.
C6_Witness ==
  /\ DetectReturned
  /\ TwoMessagesApart(270)
  /\ RepeatsVocabulary
  /\ Len(threads) = 2

\* The dates of the sorted input are ISO dates at T, T+1h, T+6h, T+6h5m.
FourMessageScenario ==
  /\ Len(messages) = 4
  /\ \A i \in 1..4 : messages[i].date.kind = "iso"
  /\ LET sorted == SortByDate(messages)
     IN /\ sorted[2].date.t = sorted[1].date.t + 60
        /\ sorted[3].date.t = sorted[1].date.t + 360
        /\ sorted[4].date.t = sorted[1].date.t + 365

\* C7: messages at T, T+1h, T+6h, T+6h5m give exactly two threads of two
\* messages each: the third message starts the second thread and the fourth
\* joins it.
C7_FourMessagesTwoThreads ==
  (DetectCalled /\ FourMessageScenario) =>
    /\ DetectReturned
    /\ Len(threads) = 2
    /\ threads[1].message_count = 2
    /\ threads[2].message_count = 2
    /\ threads[2].messages[1].date.t = threads[1].messages[1].date.t + 360
    /\ threads[2].messages[2].date.t = threads[1].messages[1].date.t + 365

\* C7 witness: the four-message scenario was segmented, supplied out of order.
C7_Witness ==
  /\ DetectReturned
  /\ FourMessageScenario
  /\ messages # SortByDate(messages)
  /\ Len(threads) = 2

\* msgs with the elements at positions i and j exchanged.
Swap(msgs, i, j) ==
  [k \in 1..Len(msgs) |->
     IF k = i THEN msgs[j] ELSE IF k = j THEN msgs[i] ELSE msgs[k]]

\* The partition a result stands for: whether the call raised, and the set
\* of messages of each thread in emission order.
PartitionOf(r) ==
  [raised |-> r.raised,
   blocks |-> [k \in 1..Len(r.threads) |->
                 {r.threads[k].messages[n] : n \in 1..Len(r.threads[k].messages)}]]

\* The outcome of detect_threads on the current input.
Outcome == [raised |-> tpc = "detect_raised", threads |-> threads]

\* Exchanging any two input messages leaves the partition unchanged.  Every
\* permutation is a product of exchanges and every ordering of an input is
\* itself an input, so this over all inputs is order independence.
SwapInvariant ==
  \A i, j \in 1..Len(messages) :
    i < j => PartitionOf(DetectThreads(Swap(messages, i, j))) = PartitionOf(Outcome)

DistinctDates ==
  \A i, j \in 1..Len(messages) : i # j => messages[i].date # messages[j].date

\* C8 as claimed: any two orderings of the same message list give the same
\* partition into threads.
C8_OrderIndependent ==
  tpc \in {"detected", "detect_raised"} => SwapInvariant

\* C8 amended: any two orderings of a message list whose dates are pairwise
\* distinct give the same outcome (messages with equal dates keep their
\* input order, which can move a thread boundary).
C8_OrderIndependentDistinctDates ==
  (tpc \in {"detected", "detect_raised"} /\ DistinctDates) => SwapInvariant

\* C8 witness: an input with distinct dates, supplied out of date order, was
\* segmented into more than one thread.
C8_Witness ==
  /\ tpc = "detected"
  /\ DistinctDates
  /\ Len(messages) >= 3
  /\ messages # SortByDate(messages)
  /\ Len(threads) >= 2

\* C9: detect_threads returns for every input list and never raises.
C9_DetectNeverRaises == tpc # "detect_raised"

\* C10: every group find_related_threads returns has at least two members,
\* each an index i with 0 <= i < len(threads).
C10_GroupsInRangeAndPlural ==
  tpc = "related" =>
    \A g \in 1..Len(groups.list) :
      /\ Len(groups.list[g]) >= 2
      /\ \A k \in 1..Len(groups.list[g]) :
           0 <= groups.list[g][k] /\ groups.list[g][k] < Len(threads)

\* C10 witness: find_related_threads returned a group.
C10_Witness ==
  /\ tpc = "related"
  /\ groups.list # <<>>
  /\ Len(threads) >= 3

\* merge_threads was called with a non-empty list of in-range thread ids.
MergeCalledInRange ==
  /\ tpc \in {"merged", "merge_raised"}
  /\ merged.thread_ids # <<>>
  /\ \A k \in 1..Len(merged.thread_ids) :
       0 <= merged.thread_ids[k] /\ merged.thread_ids[k] < Len(threads)

\* The threads the ids list, in the order listed.
ListedThreads == [k \in 1..Len(merged.thread_ids) |-> threads[merged.thread_ids[k] + 1]]

RECURSIVE SumMessageCounts(_)
SumMessageCounts(thread_list) ==
  IF thread_list = <<>> THEN 0
  ELSE Head(thread_list).message_count + SumMessageCounts(Tail(thread_list))

\* The merged thread holds the listed threads' messages in date order, counts
\* them all and carries the first id.
MergedAsSpecified ==
  LET concat == Flatten(ListedThreads)
      out == merged.thread.messages
  IN /\ Len(out) = Len(concat)
     /\ \A i \in 1..Len(concat) :
          Occurrences(out, concat[i]) = Occurrences(concat, concat[i])
     /\ \A i \in 1..(Len(out) - 1) : ~DateLess(out[i + 1].date, out[i].date)
     /\ merged.thread.message_count = SumMessageCounts(ListedThreads)
     /\ merged.thread.thread_id = merged.thread_ids[1]

\* C11: merge_threads with in-range ids returns a thread whose messages are
\* those of all listed threads sorted by date ascending, whose message_count
\* is the sum of their counts and whose thread_id is ids[0].
C11_MergeConcatenatesSorted ==
  MergeCalledInRange => (merged.status = "thread" /\ MergedAsSpecified)

\* A list filter with its unrecognized values dropped; unset when nothing
\* is left.
DropUnrecognized(list, recognized) ==
  IF IsNone(list) THEN None
  ELSE LET kept == SelectSeq(Val(list), LAMBDA x : x \in recognized)
       IN IF kept = <<>> THEN None ELSE Some(kept)

\* The filters of the call with only recognized types and services.
RecognizedFilters ==
  [call.filters EXCEPT
     !.services = DropUnrecognized(call.filters.services, {"iMessage", "SMS"}),
     !.message_types = DropUnrecognized(call.filters.message_types,
                                        {"text", "attachment"})]

\* The filters of the call name an unrecognized type or service.
HasUnrecognized == RecognizedFilters # call.filters

\* C12: unrecognized values in the services or message_types filter are
\* dropped without error: the search returns the messages and total_count of
\* the search with only the recognized values, and of the search with the
\* filter unset when no value is recognized.
C12_UnrecognizedValuesDropped ==
  (pc = "returned" /\ HasUnrecognized) =>
    LET rows == PageQuery(store, RecognizedFilters, call.page_size,
                          (call.page - 1) * call.page_size)
    IN /\ result.messages = [i \in 1..Len(rows) |-> FormatRow(rows[i])]
       /\ result.total_count = CountQuery(store, RecognizedFilters)

\* C12 witness: a search with services ["iMessage", "bogus"] over a store
\* holding an SMS row returned a message, and none of service SMS.
C12_Witness ==
  /\ pc = "returned"
  /\ call.filters.services = Some(<<"iMessage", "bogus">>)
  /\ \E row \in store : row.service = "SMS"
  /\ result.messages # <<>>
  /\ \A i \in 1..Len(result.messages) : result.messages[i].service = "iMessage"

\* The decoder returned a text.
DecodedText == dpc = "returned" /\ ~IsNone(decoded.text)

\* C13: for every payload the decoder returns None or a string none of
\* whose blank-separated tokens starts with NS, __, CF or $, whichever tier
\* produced it.
C13_NoForbiddenToken ==
  DecodedText =>
    \A k \in 1..Len(Split(Val(decoded.text))) :
      ~HasForbiddenPrefix(Split(Val(decoded.text))[k])

\* The string an NS.string value stands for in the object array: the value
\* itself, or the string at the index a reference of either form names;
\* None when it stands for no string.
ResolvedString(objects, value) ==
  IF value.type = "str" THEN Some(value.s)
  ELSE IF /\ value.type \in {"uid_dict", "uid"}
          /\ value.uid < Len(objects)
          /\ objects[value.uid + 1].type = "str"
    THEN Some(objects[value.uid + 1].s)
  ELSE None

\* Whether object k carries an NS.string that stands for a non-blank string.
CarriesText(objects, k) ==
  /\ objects[k].type = "dict"
  /\ ~IsNone(objects[k].ns_string)
  /\ ~IsNone(ResolvedString(objects, Val(objects[k].ns_string)))
  /\ Strip(Val(ResolvedString(objects, Val(objects[k].ns_string)))) # <<>>

\* C14: an archive whose object array is the single object with NS.string
\* "Hello there" decodes to exactly "Hello there"; in general the text is
\* the NS.string value of the first object that carries one, resolved through
\* the object array when the value is an index reference.
C14_NSStringReturned ==
  (dpc = "returned" /\ payload.plist.kind = "archive") =>
    LET objects == payload.plist.objects
    IN /\ objects = <<PObject(TRUE, Some(PStr(<<"H", "e", "l", "l", "o", " ", "t", "h", "e", "r", "e">>)))>> =>
            decoded.text = Some(<<"H", "e", "l", "l", "o", " ", "t", "h", "e", "r", "e">>)
       /\ \A k \in 1..Len(objects) :
            (CarriesText(objects, k) /\ \A j \in 1..(k - 1) : ~CarriesText(objects, j))
              => decoded.text =
                   Some(Strip(Val(ResolvedString(objects, Val(objects[k].ns_string)))))

\* What each tier yields for the payload, computed on its own.
TierOutput(n) ==
  CASE n = 1 -> StructuredDecode(payload.plist)
    [] n = 2 -> TextScan(payload.data)
    [] OTHER -> AsciiScrub(payload.data)

\* The tiers ran in order, each only after the earlier ones yielded nothing,
\* and the result is that of the first tier that yields a text.
TiersInOrder ==
  /\ \E n \in 0..3 : decoded.tried = [k \in 1..n |-> k]
  /\ \A n \in 1..Len(decoded.tried) : \A m \in 1..(n - 1) : IsNone(TierOutput(m))
  /\ IF \E n \in 1..3 : ~IsNone(TierOutput(n))
       THEN LET first == CHOOSE n \in 1..3 :
                           /\ ~IsNone(TierOutput(n))
                           /\ \A m \in 1..(n - 1) : IsNone(TierOutput(m))
            IN decoded.tier = first /\ decoded.text = TierOutput(first)
     ELSE decoded.tier = 0 /\ IsNone(decoded.text)

SeeYouAt5 == <<"s", "e", "e", " ", "y", "o", "u", " ", "a", "t", " ", "5">>

\* "see you at 5" stands in the payload between non-printable bytes (or the
\* payload's ends).
PhraseAmidNoise ==
  \E i \in 0..(Len(payload.data) - Len(SeeYouAt5)) :
    /\ SubSeq(payload.data, i + 1, i + Len(SeeYouAt5)) = SeeYouAt5
    /\ i = 0 \/ payload.data[i] \in {Ctl, Hi}
    /\ \/ i + Len(SeeYouAt5) = Len(payload.data)
       \/ payload.data[i + Len(SeeYouAt5) + 1] \in {Ctl, Hi}

\* C15 as claimed: the tiers run in order, each only when the previous
\* yields nothing, and a payload that fails structured parsing but contains
\* the printable run "see you at 5" amid binary noise returns a text
\* containing that phrase.
C15_TiersInOrderPhraseFound ==
  dpc = "returned" =>
    /\ TiersInOrder
    /\ (payload.plist.kind = "invalid" /\ PhraseAmidNoise) =>
         (DecodedText /\ Contains(Val(decoded.text), SeeYouAt5))

\* "see you at 5" is a whole printable run of the payload, and no other run
\* the text scan accepts scores as high.
PhraseIsBestRun ==
  LET runs == ReadableSequences(Utf8Decode(payload.data))
  IN /\ \E k \in 1..Len(runs) : Strip(runs[k]) = SeeYouAt5
     /\ \A k \in 1..Len(runs) :
          (Strip(runs[k]) # SeeYouAt5 /\ IsMessageCandidate(Strip(runs[k])))
            => CandidateScore(Strip(runs[k])) < CandidateScore(SeeYouAt5)

\* C15 amended: the tiers run in order, each only when the previous yields
\* nothing, and a payload that fails structured parsing in which
\* "see you at 5" is a whole printable run, bounded by control bytes, that
\* outscores every other accepted run is decoded by the text scan to exactly
\* that phrase.
C15_TiersInOrderPhraseRun ==
  dpc = "returned" =>
    /\ TiersInOrder
    /\ (payload.plist.kind = "invalid" /\ PhraseIsBestRun) =>
         (decoded.tier = 2 /\ decoded.text = Some(SeeYouAt5))

\* C15 witness: a payload that fails structured parsing, with the phrase
\* between a control byte and framework noise, was decoded by the text scan.
C15_Witness ==
  /\ dpc = "returned"
  /\ payload.plist.kind = "invalid"
  /\ PhraseIsBestRun
  /\ Contains(payload.data, <<"N", "S", "S", "t", "r", "i", "n", "g">>)
  /\ decoded.tried = <<1, 2>>
  /\ decoded.text = Some(SeeYouAt5)

\* The rows of the returned page, in the order of result.messages.
PageRows ==
  PageQuery(store, call.filters, call.page_size, (call.page - 1) * call.page_size)

\* C16: for each returned row whose text is NULL and whose rich-text
\* payload is not, the text of the returned message is the decoder's result
\* for that payload, not the NULL column.
C16_NullTextDecoded ==
  pc = "returned" =>
    \A i \in 1..Len(PageRows) :
      (IsNone(PageRows[i].text) /\ ~IsNone(PageRows[i].attributedBody)) =>
        result.messages[i].text =
          ExtractTextFromAttributedBody(Val(PageRows[i].attributedBody)).text

\* search_messages returned from its latest call.
SearchReturned == pc \in {"returned", "returned_again"}

\* The value the history entry holds for a filter: None for a filter the
\* entry has no field for.
Recorded(entry, filter) ==
  IF filter \in DOMAIN entry.criteria THEN entry.criteria[filter] ELSE None

\* C17: when search_messages returns, the newest history entry carries the
\* filter set of that search and a result_count equal to the returned
\* total_count.
C17_CompletedSearchRecorded ==
  SearchReturned =>
    /\ history # <<>>
    /\ history[1].result_count = result.total_count
    /\ \A filter \in DOMAIN call.filters :
         Recorded(history[1], filter) = call.filters[filter]

\* The SearchResult the latest call has to return for its arguments.
ExpectedResult ==
  SearchResult([i \in 1..Len(PageRows) |-> FormatRow(PageRows[i])],
               CountQuery(store, call.filters), call.page, call.page_size)

\* C18: if persisting the history entry fails, search_messages still
\* returns the SearchResult it would have returned otherwise and raises
\* nothing.
C18_SaveFailureHarmless ==
  io.save \in {"open_failed", "write_failed"} =>
    (SearchReturned /\ result = ExpectedResult)

\* C18 witness: a search returned messages although the write of the history
\* file failed and left it unreadable.
C18_Witness ==
  /\ pc = "returned"
  /\ io.save = "write_failed"
  /\ historyFile = CorruptFile
  /\ result.messages # <<>>
  /\ history[1].result_count = result.total_count

\* C19: if the page query or the count query fails, search_messages raises,
\* returns no SearchResult and records no entry in the search history.
C19_AllOrNothing ==
  [][io'.fault # "none" =>
       /\ pc' \in {"raised", "raised_again"}
       /\ result' = RaisedResult
       /\ history' = history
       /\ historyFile' = historyFile]_vars

\* C19 witness: the count query failed after the page query had matched
\* rows; the call raised and the history is as it was loaded.
C19_Witness ==
  /\ pc = "raised"
  /\ io.fault = "count"
  /\ PageRows # <<>>
  /\ result.status = "raised"
  /\ history = <<OldEntry>>
  /\ historyFile = FileOf(<<OldEntry>>)

C21_ConnectionsReleased ==
  cpc \in {"returned", "raised"} => connections = 0

\* ====================================================== properties: history

\* The k-th most recent search: the entries added in this session, newest
\* first, and then the loaded list in its own order.
KthMostRecent(k) ==
  IF k <= Len(added) THEN added[Len(added) - k + 1] ELSE loaded[k - Len(added)]

\* C22: after any sequence of add_search calls the history holds at most
\* 100 entries, and they are the most recent searches, newest first: index 0
\* is the last search added and what lies beyond 100 is discarded.
C22_HistoryCappedNewestFirst ==
  hpc = "added" =>
    /\ Len(history) <= 100
    /\ Len(history) = (IF Len(added) + Len(loaded) > 100 THEN 100
                       ELSE Len(added) + Len(loaded))
    /\ \A k \in 1..Len(history) : history[k] = KthMostRecent(k)

\* add_search calls have pushed the history past the limit, so that older
\* entries were discarded.
C22_Witness ==
  /\ hpc = "added"
  /\ Len(added) >= 2
  /\ Len(added) + Len(loaded) > 100
  /\ Len(history) = 100

\* ====================================================== properties: threads (2)

\* The distinct senders of a thread's messages, every message of the owner
\* counted as the one owner.
DistinctSenders(thread) ==
  {IF thread.messages[i].is_from_me THEN Owner ELSE thread.messages[i].sender :
     i \in 1..Len(thread.messages)}

\* The participants stand for the distinct senders one for one: as many of
\* them, the owner's constant among them exactly when the owner wrote.
ParticipantsMatchSenders(thread) ==
  /\ Cardinality(thread.participants) = Cardinality(DistinctSenders(thread))
  /\ "Me" \in thread.participants <=> Owner \in DistinctSenders(thread)

\* C23: the participants of every thread the segmenter builds are the set of
\* distinct senders observed among its messages, the owner's messages
\* normalized to one constant.
C23_ParticipantsAreDistinctSenders ==
  /\ DetectReturned => \A k \in 1..Len(threads) : ParticipantsMatchSenders(threads[k])
  /\ merged.status = "thread" => ParticipantsMatchSenders(merged.thread)

\* The union of the lowercase word sets of the buffer's last 5 messages.
RecentWords(buffer) == UNION {WordsOf(LastN(buffer, 5)[i]) : i \in 1..Len(LastN(buffer, 5))}

\* The Jaccard similarity of two word sets is at least similarity_threshold
\* (0.3); it is 0 when both sets are empty.
JaccardAtLeast(a, b) ==
  /\ a \cup b # {}
  /\ 10 * Cardinality(a \cap b) >= 3 * Cardinality(a \cup b)

\* The admission rule as claimed, g being the absolute gap in minutes to the
\* buffer's last message (no g when a timestamp does not parse).
AdmittedAsClaimed(message, buffer) ==
  LET last == buffer[Len(buffer)]
  IN /\ message.date.kind = "iso"
     /\ last.date.kind = "iso"
     /\ LET g == Abs(message.date.t - last.date.t)
        IN \/ 2 * g <= 4 * 60
           \/ /\ 2 * g > 4 * 60
              /\ g <= 4 * 60
              /\ JaccardAtLeast(WordsOf(message), RecentWords(buffer))

\* The message lists of the threads the claimed rule gives for the sorted
\* messages from the i-th on: a message not admitted closes the buffer and
\* starts a new one.
RECURSIVE SegmentsAsClaimed(_, _, _, _)
SegmentsAsClaimed(sorted, i, closed, buffer) ==
  IF i > Len(sorted) THEN (IF buffer = <<>> THEN closed ELSE Append(closed, buffer))
  ELSE IF buffer = <<>> THEN SegmentsAsClaimed(sorted, i + 1, closed, <<sorted[i]>>)
  ELSE IF AdmittedAsClaimed(sorted[i], buffer)
    THEN SegmentsAsClaimed(sorted, i + 1, closed, Append(buffer, sorted[i]))
  ELSE SegmentsAsClaimed(sorted, i + 1, Append(closed, buffer), <<sorted[i]>>)

\* detect_threads was handed messages it could sort (no date is None).
DetectSorted ==
  /\ DetectCalled
  /\ \A i \in 1..Len(messages) : messages[i].date.kind # "none"

\* C24: in detect_threads a message is admitted to the current thread if and
\* only if its gap g to the buffer's last message is <= time_gap_hours/2, or
\* time_gap_hours/2 < g <= time_gap_hours and the Jaccard similarity between
\* its lowercase word set and the union of the word sets of the buffer's last
\* 5 messages is >= similarity_threshold; otherwise the current thread is
\* closed and the message starts a new one.
C24_AdmittedIffGapOrSimilarity ==
  DetectSorted =>
    /\ DetectReturned
    /\ [k \in 1..Len(threads) |-> threads[k].messages]
         = SegmentsAsClaimed(SortByDate(messages), 1, <<>>, <<>>)

\* Two messages are more than time_gap_hours (4 hours) apart; a timestamp
\* that does not parse counts as an infinite gap.
GapExceeds(a, b) ==
  \/ a.date.kind # "iso"
  \/ b.date.kind # "iso"
  \/ Abs(b.date.t - a.date.t) > 4 * 60

\* The positions in the flattened thread list after which a thread ends.
RECURSIVE ThreadEnds(_, _)
ThreadEnds(thread_list, before) ==
  IF thread_list = <<>> THEN {}
  ELSE LET end == before + Len(Head(thread_list).messages)
       IN {end} \cup ThreadEnds(Tail(thread_list), end)

\* C25: in every thread detect_threads emits, consecutive messages are at
\* most time_gap_hours apart: a message whose gap to the buffer's last
\* message (the message sorted just before it) exceeds time_gap_hours closes
\* the current thread and starts a new one, whatever its content.
C25_NoGapBeyondWindowInThread ==
  DetectReturned =>
    /\ \A k \in 1..Len(threads) : \A n \in 1..(Len(threads[k].messages) - 1) :
         ~GapExceeds(threads[k].messages[n], threads[k].messages[n + 1])
    /\ LET sorted == SortByDate(messages)
       IN \A i \in 1..(Len(sorted) - 1) :
            GapExceeds(sorted[i], sorted[i + 1]) => i \in ThreadEnds(threads, 0)

\* C25 witness: two messages more than the window apart that share a word
\* were put into different threads.
C25_Witness ==
  /\ DetectReturned
  /\ LET sorted == SortByDate(messages)
     IN \E i \in 1..(Len(sorted) - 1) :
          /\ sorted[i].date.kind = "iso"
          /\ sorted[i + 1].date.kind = "iso"
          /\ GapExceeds(sorted[i], sorted[i + 1])
          /\ JaccardAtLeast(WordsOf(sorted[i + 1]), WordsOf(sorted[i]))
          /\ i \in ThreadEnds(threads, 0)

\* C26: the threads detect_threads returns carry thread_id 0, 1, ..., n-1,
\* no gaps and no repeats, in emission order, which is the chronological
\* order of the threads: no thread starts before the one emitted before it
\* ends.
C26_ThreadIdsSequential ==
  DetectReturned =>
    /\ \A k \in 1..Len(threads) : threads[k].thread_id = k - 1
    /\ \A k \in 1..(Len(threads) - 1) :
         ~DateLess(threads[k + 1].start_time, threads[k].end_time)

\* C26 witness: an input supplied out of date order gave three or more
\* threads.
C26_Witness ==
  /\ DetectReturned
  /\ messages # SortByDate(messages)
  /\ Len(threads) >= 3

\* The message is the only one of some returned thread.
AloneInOwnThread(m) ==
  /\ DetectReturned
  /\ \E k \in 1..Len(threads) : threads[k].messages = <<m>>

\* C27: a message whose timestamp cannot be parsed has an infinite gap to its
\* neighbours in detect_threads: it never joins the thread before it and the
\* message after it never joins its thread, so it ends up alone in its own
\* thread.
C27_UnparseableDateAlone ==
  DetectCalled =>
    \A i \in 1..Len(messages) :
      messages[i].date.kind # "iso" => AloneInOwnThread(messages[i])

\* ====================================================== properties: related threads

\* The words of some messages after stopword removal.
ContentWords(msgs) == (UNION {WordsOf(msgs[i]) : i \in 1..Len(msgs)}) \ common_words

Smaller(a, b) == IF a < b THEN a ELSE b

\* Relatedness as claimed: the whole days between the anchor's end and the
\* other's start are at most max_days_apart, and after stopword removal the
\* word sets of the anchor's last 3 and the other's first 3 messages are
\* both non-empty with overlap / min size >= 0.3.
RelatedAsClaimed(anchor, other, max_days_apart) ==
  /\ anchor.end_time.kind = "iso"
  /\ other.start_time.kind = "iso"
  /\ Abs((other.start_time.t - anchor.end_time.t) \div (24 * 60)) <= max_days_apart
  /\ LET words1 == ContentWords(LastN(anchor.messages, 3))
         words2 == ContentWords(FirstN(other.messages, 3))
     IN /\ words1 # {}
        /\ words2 # {}
        /\ 10 * Cardinality(words1 \cap words2)
             >= 3 * Smaller(Cardinality(words1), Cardinality(words2))

\* The indices placed in the groups before the g-th.
PlacedBefore(g) ==
  UNION {{groups.list[h][k] : k \in 1..Len(groups.list[h])} : h \in 1..(g - 1)}

\* C28: each group find_related_threads returns is an anchor, its first and
\* lowest index, followed by exactly those later threads, not already placed
\* in an earlier group, that are related to the anchor.  Relatedness is
\* tested against the anchor only.
C28_GroupIsAnchorWithRelated ==
  tpc = "related" =>
    \A g \in 1..Len(groups.list) :
      LET group == groups.list[g]
          anchor == group[1]
      IN /\ \A k \in 2..Len(group) : group[k - 1] < group[k]
         /\ {group[k] : k \in 2..Len(group)}
              = {j \in (anchor + 1)..(Len(threads) - 1) :
                   /\ j \notin PlacedBefore(g)
                   /\ RelatedAsClaimed(threads[anchor + 1], threads[j + 1],
                                       groups.max_days_apart)}

\* C28 witness: a returned group holds two non-anchor members that are not
\* related to each other.
C28_Witness ==
  /\ tpc = "related"
  /\ \E g \in 1..Len(groups.list) :
       LET group == groups.list[g]
       IN /\ Len(group) >= 3
          /\ ~RelatedAsClaimed(threads[group[2] + 1], threads[group[3] + 1],
                               groups.max_days_apart)

\* Every index of every returned group, in order of appearance.
RECURSIVE AllGroupIndices(_)
AllGroupIndices(group_list) ==
  IF group_list = <<>> THEN <<>>
  ELSE Head(group_list) \o AllGroupIndices(Tail(group_list))

\* C30: the groups find_related_threads returns are pairwise disjoint: no
\* thread index appears in more than one group, and none twice in a group.
C30_GroupsDisjoint ==
  tpc = "related" =>
    LET indices == AllGroupIndices(groups.list)
    IN \A p, q \in 1..Len(indices) : p # q => indices[p] # indices[q]

\* C30 witness: two groups were returned, a member of the first being
\* related to the anchor of the second.
C30_Witness ==
  /\ tpc = "related"
  /\ Len(groups.list) >= 2
  /\ \E k \in 1..Len(groups.list[1]) :
       /\ groups.list[1][k] > groups.list[2][1]
       /\ RelatedAsClaimed(threads[groups.list[2][1] + 1],
                           threads[groups.list[1][k] + 1], groups.max_days_apart)

\* ====================================================== properties: pagination

\* The messages of page p of the search just made, on the unchanged store.
PageOf(p) ==
  LET results == PageQuery(store, call.filters, call.page_size, (p - 1) * call.page_size)
  IN [i \in 1..Len(results) |-> FormatRow(results[i])]

\* The whole result of the search just made, newest first.
WholeResult ==
  LET rows == OrderByDateDesc(PageMatches(store, call.filters))
  IN [i \in 1..Len(rows) |-> FormatRow(rows[i])]

\* min(page_size, max(0, total_count - (p-1)*page_size))
ClaimedPageLength(total_count, p, page_size) ==
  LET left == total_count - (p - 1) * page_size
  IN IF left <= 0 THEN 0 ELSE IF left < page_size THEN left ELSE page_size

\* The page sits at offset (p-1)*page_size of the timestamp-descending result.
PageAtOffset ==
  \A i \in 1..Len(result.messages) :
    /\ (call.page - 1) * call.page_size + i <= Len(WholeResult)
    /\ result.messages[i] = WholeResult[(call.page - 1) * call.page_size + i]

\* No other page of the same search holds a message of this page.
PagesDisjoint ==
  \A p \in 1..(MaxRows + 1) :
    p # call.page =>
      \A i \in 1..Len(PageOf(p)), j \in 1..Len(result.messages) :
        PageOf(p)[i] # result.messages[j]

\* C29: for any filters, page p of search_messages holds exactly
\* min(page_size, max(0, total_count - (p-1)*page_size)) messages, taken at
\* offset (p-1)*page_size of the timestamp-descending result, and two
\* different pages of the same search share no message.
C29_PageLengthOffsetDisjoint ==
  SearchReturned =>
    /\ Len(result.messages)
         = ClaimedPageLength(result.total_count, call.page, call.page_size)
    /\ PageAtOffset
    /\ PagesDisjoint

====
